---- MODULE Spec2Model ----
(***************************************************************************)
(* Recipe-graph planner of factorio-simulator (src/src/smart.rs).          *)
(*                                                                         *)
(* Number (an f64 newtype, src/src/number.rs) is modelled by exact         *)
(* rationals <<numerator, denominator>> in lowest terms, denominator > 0.  *)
(* The graph (Data) is what World::new builds from data-raw-dump.json; the *)
(* model fixes a small catalog and the World carries it in its data field, *)
(* as in the source.                                                       *)
(*                                                                         *)
(* Scope: amounts and machine counts are positive integers (the source     *)
(* takes any f64); a call that panics leaves the World as the model found  *)
(* it and ends the program; a call that does not return has no next state. *)
(* One iteration order of world.machines.keys() is followed per call, and  *)
(* every call is tried under the orders MachineOrders gives.               *)
(*                                                                         *)
(* A value that is used more than once is bound before it is used, as a    *)
(* parameter of a helper operator or as the variable of a singleton set:   *)
(* CHOOSE v \in {F(x) : x \in {e}} : TRUE is F applied to the value of e.  *)
(***************************************************************************)
EXTENDS Integers, Sequences, FiniteSets, TLC

\* ------------------------------------------------------------------------
\* Bounds of the model
\* ------------------------------------------------------------------------
\* largest amount a caller passes to craft / build
MaxAmount == 2
\* number of API calls explored after the driver script that set the World up
MaxOps == 1
\* closure passes of StepPlanner::finalize that are followed before the
\* call is treated as not returning
MaxPasses == 8
\* improve-loop iterations of Planner::think that are followed before the
\* call is treated as not returning
MaxThink == 6
\* the largest constant count of a technology's unit
MaxCount == 2
\* the most multiplier letters at the end of a string handed to number::parse
MaxLetters == 2

\* ------------------------------------------------------------------------
\* Number: exact rational arithmetic (src/src/number.rs)
\* ------------------------------------------------------------------------
Abs(n) == IF n < 0 THEN -n ELSE n

RECURSIVE GCD(_, _)
GCD(a, b) == IF b = 0 THEN a ELSE GCD(b, a % b)

Reduce(n, d, g) == <<n \div g, d \div g>>

Norm(n, d) == Reduce(n, d, GCD(Abs(n), d))

Zero == <<0, 1>>
One == <<1, 1>>
FromInt(n) == <<n, 1>>

LCM(a, b) == (a \div GCD(a, b)) * b

\* a and b over the common denominator l
AddOver(a, b, l) == Norm(a[1] * (l \div a[2]) + b[1] * (l \div b[2]), l)

\* impl Add for Number
NumAdd(a, b) == AddOver(a, b, LCM(a[2], b[2]))

\* the product with the common factors g1, g2 taken out first
MulReduced(a, b, g1, g2) ==
    <<(a[1] \div g1) * (b[1] \div g2), (a[2] \div g2) * (b[2] \div g1)>>

\* impl Mul for Number
NumMul(a, b) == MulReduced(a, b, GCD(Abs(a[1]), b[2]), GCD(Abs(b[1]), a[2]))

\* impl Div for Number (the divisor is positive wherever the model divides)
NumDiv(a, b) == NumMul(a, <<b[2], b[1]>>)

LtOver(a, b, l) == a[1] * (l \div a[2]) < b[1] * (l \div b[2])

\* impl Ord for Number
NumLt(a, b) == LtOver(a, b, LCM(a[2], b[2]))

NumLe(a, b) == ~NumLt(b, a)

NumMax(a, b) == IF NumLt(a, b) THEN b ELSE a

\* ------------------------------------------------------------------------
\* The graph: Data { recipes, machines, researches } as World::new builds it
\* ------------------------------------------------------------------------
None == "none"

\* Item::Energy { fuel_category: Some(Chemical), energy_type: Burner }
EnergyChemical == "energy:chemical:burner"
\* Item::Energy { fuel_category: None, energy_type: Electric }
EnergyElectric == "energy:electric"

FuelCategories == {"chemical"}

BurnerEnergy(category) == "energy:" \o category \o ":burner"

BurnerEnergyItems == {BurnerEnergy(c) : c \in FuelCategories}

\* fuel category of a burner energy item
FuelCategoryOf(item) == CHOOSE c \in FuelCategories : BurnerEnergy(c) = item

TangibleItems ==
    {"iron-ore", "coal", "wood", "iron-plate", "water", "uranium-ore",
     "burner-mining-drill", "stone-furnace", "lab", "steam-engine"}

Items == TangibleItems \cup {EnergyChemical, EnergyElectric}

\* ticks per second
UPS == 60

\* the threshold below which finalize drops an energy demand
EnergyThreshold == <<1, 100000>>

Ing(item, n, d) == [item |-> item, amount |-> <<n, d>>]

\* a map Item -> Number given as a set of entries
Keys(map) == {e.item : e \in map}
Get(map, item) == (CHOOSE e \in map : e.item = item).amount

Recipes ==
    [name \in {"iron-ore mining", "coal mining", "wood mining", "uranium-ore mining",
               "iron-plate", "burner-mining-drill", "stone-furnace", "lab", "steam-engine",
               "coal chemical burnable fuel energy", "wood chemical burnable fuel energy",
               "generator steam-engine work", "water",
               "research automation", "research logistics", "research optics",
               "research electronics"} |->
      CASE name = "iron-ore mining" ->
             [category |-> "mining:basic-solid", ingredients |-> {},
              results |-> {Ing("iron-ore", 1, 1)}, crafting_time |-> <<1, 1>>]
        [] name = "coal mining" ->
             [category |-> "mining:deep-solid", ingredients |-> {},
              results |-> {Ing("coal", 1, 1)}, crafting_time |-> <<1, 1>>]
        [] name = "wood mining" ->
             [category |-> "mining:deep-solid", ingredients |-> {},
              results |-> {Ing("wood", 1, 1)}, crafting_time |-> <<1, 1>>]
        [] name = "uranium-ore mining" ->
             [category |-> "mining:fluid", ingredients |-> {Ing("water", 1, 1)},
              results |-> {Ing("uranium-ore", 1, 1)}, crafting_time |-> <<2, 1>>]
        [] name = "iron-plate" ->
             [category |-> "craft:smelting", ingredients |-> {Ing("iron-ore", 1, 1)},
              results |-> {Ing("iron-plate", 1, 1)}, crafting_time |-> <<2, 1>>]
        [] name = "burner-mining-drill" ->
             [category |-> "craft:crafting", ingredients |-> {Ing("iron-ore", 3, 1)},
              results |-> {Ing("burner-mining-drill", 1, 1)}, crafting_time |-> <<2, 1>>]
        [] name = "stone-furnace" ->
             [category |-> "craft:crafting", ingredients |-> {Ing("iron-ore", 2, 1)},
              results |-> {Ing("stone-furnace", 1, 1)}, crafting_time |-> <<1, 1>>]
        [] name = "lab" ->
             [category |-> "craft:crafting", ingredients |-> {Ing("iron-ore", 2, 1)},
              results |-> {Ing("lab", 1, 1)}, crafting_time |-> <<2, 1>>]
        [] name = "steam-engine" ->
             [category |-> "craft:crafting", ingredients |-> {Ing("iron-ore", 2, 1)},
              results |-> {Ing("steam-engine", 1, 1)}, crafting_time |-> <<2, 1>>]
        [] name = "coal chemical burnable fuel energy" ->
             [category |-> "burnable-fuel-energy:chemical", ingredients |-> {Ing("coal", 1, 1)},
              results |-> {Ing(EnergyChemical, 10, 1)}, crafting_time |-> None]
        [] name = "wood chemical burnable fuel energy" ->
             [category |-> "burnable-fuel-energy:chemical", ingredients |-> {Ing("wood", 1, 1)},
              results |-> {Ing(EnergyChemical, 1, 500)}, crafting_time |-> None]
        [] name = "generator steam-engine work" ->
             [category |-> "generator:steam-engine", ingredients |-> {Ing("water", 1, 2)},
              results |-> {Ing(EnergyElectric, 30, 1)}, crafting_time |-> <<1, UPS>>]
        [] name = "water" ->
             [category |-> "free", ingredients |-> {},
              results |-> {Ing("water", 1, 1)}, crafting_time |-> None]
        [] name = "research automation" ->
             [category |-> "research", ingredients |-> {Ing("iron-ore", 1, 1)},
              results |-> {}, crafting_time |-> <<10, 1>>]
        [] name = "research logistics" ->
             [category |-> "research", ingredients |-> {Ing("iron-ore", 1, 1)},
              results |-> {}, crafting_time |-> <<5, 1>>]
        [] name = "research optics" ->
             [category |-> "research", ingredients |-> {},
              results |-> {}, crafting_time |-> <<5, 1>>]
        [] name = "research electronics" ->
             [category |-> "research", ingredients |-> {Ing("iron-ore", 1, 1)},
              results |-> {}, crafting_time |-> <<5, 1>>]]

RecipeNames == DOMAIN Recipes

Machines ==
    [name \in {"character mining", "character crafting", "free",
               "burner-mining-drill", "stone-furnace", "lab", "steam-engine"} |->
      CASE name = "character mining" ->
             [categories |-> {"mining:basic-solid"}, energy_usage |-> {},
              crafting_speed |-> <<1, 2>>]
        [] name = "character crafting" ->
             [categories |-> {"craft:crafting"}, energy_usage |-> {},
              crafting_speed |-> <<1, 1>>]
        [] name = "free" ->
             [categories |-> {"free"}, energy_usage |-> {},
              crafting_speed |-> <<1, 1>>]
        [] name = "burner-mining-drill" ->
             [categories |-> {"mining:basic-solid", "mining:deep-solid"},
              energy_usage |-> {Ing(EnergyChemical, 1, 1000)},
              crafting_speed |-> <<1, 2>>]
        [] name = "stone-furnace" ->
             [categories |-> {"craft:smelting"},
              energy_usage |-> {Ing(EnergyChemical, 1, 1000)},
              crafting_speed |-> <<1, 1>>]
        [] name = "lab" ->
             [categories |-> {"research"},
              energy_usage |-> {Ing(EnergyElectric, 60, 1)},
              crafting_speed |-> <<1, 1>>]
        [] name = "steam-engine" ->
             [categories |-> {"generator:steam-engine"}, energy_usage |-> {},
              crafting_speed |-> <<1, 1>>]]

MachineNames == DOMAIN Machines

\* Research { name, dependencies, recipe }; "rocket-silo" is a technology
\* whose unit count is a formula: it has a Research record and no recipe
Researches ==
    [name \in {"automation", "logistics", "optics", "electronics", "rocket-silo"} |->
      CASE name = "automation" -> [dependencies |-> <<>>]
        [] name = "logistics" -> [dependencies |-> <<"automation">>]
        [] name = "optics" -> [dependencies |-> <<"automation">>]
        [] name = "electronics" -> [dependencies |-> <<"logistics", "optics">>]
        [] name = "rocket-silo" -> [dependencies |-> <<"optics">>]]

ResearchNames == DOMAIN Researches

ResearchRecipe(name) == "research " \o name

\* format!("{:?} {:?} burnable fuel energy", item.name, fuel.category)
BurnableFuelRecipeName(fuel, category) ==
    fuel \o " " \o category \o " burnable fuel energy"

\* ------------------------------------------------------------------------
\* World { data, researches, preferred_fuel, machines, time }
\* preferred_fuel and machines are maps: functions whose DOMAIN is the key set
\* ------------------------------------------------------------------------
EmptyMap == [x \in {} |-> Zero]

Put(map, key, value) == [k \in (DOMAIN map) \cup {key} |-> IF k = key THEN value ELSE map[k]]

Remove(map, key) == [k \in (DOMAIN map) \ {key} |-> map[k]]

\* Data { recipes, machines, researches }
NewData == [recipes |-> Recipes, machines |-> Machines, researches |-> Researches]

\* World::new: the three pseudo-machines, nothing researched, time 0
NewWorld ==
    [data |-> NewData,
     researches |-> {},
     preferred_fuel |-> EmptyMap,
     machines |-> [m \in {"character mining", "character crafting", "free"} |-> 1],
     time |-> Zero]

\* ------------------------------------------------------------------------
\* find_recipe_for
\* ------------------------------------------------------------------------
\* does some machine the World holds cover the category
Covered(w, category) ==
    \E m \in DOMAIN w.machines : category \in w.data.machines[m].categories

\* no name counts as a barrelling recipe
NeverBarrel(name) == FALSE

\* str::contains for the one pattern the filter uses: the catalog of the
\* model names its barrelling recipes with the words "fill" / "empty" and
\* "barrel"
ContainsBarrel(name) == name \in {"fill water barrel", "empty water barrel"}

\* no recipe is preferred
NoPreference(w, name) == 0

\* the max_by_key key (category == Free, name == "advanced-oil-processing")
\* as a number that orders like the pair
ResolutionKey(w, name) ==
    (IF w.data.recipes[name].category = "free" THEN 2 ELSE 0)
    + (IF name = "advanced-oil-processing" THEN 1 ELSE 0)

\* every recipe that yields the item, whatever its category
SurvivorsAnyCategory(w, item) ==
    {r \in DOMAIN w.data.recipes :
        /\ item \in Keys(w.data.recipes[r].results)
        /\ ~ContainsBarrel(r)
        /\ r # "coal-liquefaction"}

\* the recipes that pass the filters of find_recipe_for
Survivors(w, item) ==
    {r \in DOMAIN w.data.recipes :
        /\ item \in Keys(w.data.recipes[r].results)
        /\ Covered(w, w.data.recipes[r].category)
        /\ ~ContainsBarrel(r)
        /\ r # "coal-liquefaction"}

\* the burner branch put through the filters of the other items
BurnerRecipeFiltered(w, category) ==
    IF category \notin DOMAIN w.preferred_fuel
    THEN [kind |-> "panic", name |-> "No preferred fuel set"]
    ELSE IF BurnableFuelRecipeName(w.preferred_fuel[category], category)
              \in Survivors(w, BurnerEnergy(category))
    THEN [kind |-> "some",
          name |-> BurnableFuelRecipeName(w.preferred_fuel[category], category)]
    ELSE [kind |-> "none", name |-> ""]

\* the burner branch: the recipe of the preferred fuel, without any filter
BurnerRecipe(w, category) ==
    IF category \notin DOMAIN w.preferred_fuel
    THEN [kind |-> "panic", name |-> "No preferred fuel set"]
    ELSE [kind |-> "some",
          name |-> BurnableFuelRecipeName(w.preferred_fuel[category], category)]

\* the recipes max_by_key may return: those with the largest key (which of
\* several it returns depends on the iteration order of data.recipes)
Maximal(w, s) ==
    {r \in s : \A q \in s : ResolutionKey(w, q) <= ResolutionKey(w, r)}

\* max_by_key over the recipes that passed the filters
BestOf(w, s) ==
    IF s = {}
    THEN [kind |-> "none", name |-> ""]
    ELSE [kind |-> "some", name |-> CHOOSE r \in Maximal(w, s) : TRUE]

\* Some(name), None, or a panic (no preferred fuel)
find_recipe_for(w, item) ==
    IF item \in BurnerEnergyItems
    THEN BurnerRecipe(w, FuelCategoryOf(item))
    ELSE BestOf(w, Survivors(w, item))

\* what find_recipe_for may answer, over the iteration orders of data.recipes
Resolutions(w, item) ==
    IF item \in BurnerEnergyItems
    THEN {BurnerRecipe(w, FuelCategoryOf(item))}
    ELSE IF Survivors(w, item) = {}
    THEN {[kind |-> "none", name |-> ""]}
    ELSE {[kind |-> "some", name |-> r] : r \in Maximal(w, Survivors(w, item))}

\* ------------------------------------------------------------------------
\* StepPlanner { world, executed: ExecutedStep { crafts, builds, single_machine_time } }
\* crafts and single_machine_time are total maps, 0 standing for "no entry";
\* status is "ok" until a panic unwinds the planner
\* ------------------------------------------------------------------------
\* StepPlanner::new(world).executed
NewExecutedStep(w) ==
    [crafts |-> [r \in DOMAIN w.data.recipes |-> Zero],
     builds |-> [m \in DOMAIN w.data.machines |-> 0],
     single_machine_time |-> [m \in DOMAIN w.data.machines |-> Zero],
     status |-> "ok",
     error |-> ""]

Panic(ex, msg) == [ex EXCEPT !.status = "panic", !.error = msg]

\* machines_used of craft_recipe
MachinesUsed(w, recipe) ==
    {m \in DOMAIN w.machines :
        w.data.recipes[recipe].category \in w.data.machines[m].categories}

\* crafting_speed * count of one machine group
GroupSpeed(w, m) == NumMul(w.data.machines[m].crafting_speed, FromInt(w.machines[m]))

RECURSIVE SumSpeed(_, _)
SumSpeed(w, ms) ==
    IF ms = {} THEN Zero
    ELSE CHOOSE v \in {NumAdd(GroupSpeed(w, m), SumSpeed(w, ms \ {m})) :
                          m \in {CHOOSE x \in ms : TRUE}} : TRUE

\* the share of one machine of the group, whatever the size of the group
ShareOfOne(w, m, crafts, total_speed) ==
    NumDiv(NumMul(crafts, w.data.machines[m].crafting_speed), total_speed)

\* the share of `crafts` a machine group gets
Share(w, m, crafts, total_speed) ==
    NumDiv(NumMul(crafts, GroupSpeed(w, m)), total_speed)

\* the time the share adds to single_machine_time[m]
Occupancy(w, m, crafts, total_speed, recipe_crafting_time) ==
    NumDiv(NumMul(Share(w, m, crafts, total_speed), recipe_crafting_time),
           w.data.machines[m].crafting_speed)

\* single_machine_time after the work of `crafts` firings is shared among
\* the machines `used`
Shared(w, ex, used, crafts, total_speed, time) ==
    [ex EXCEPT !.single_machine_time =
        [m \in DOMAIN w.data.machines |->
            IF m \in used
            THEN NumAdd(ex.single_machine_time[m],
                        Occupancy(w, m, crafts, total_speed, time))
            ELSE ex.single_machine_time[m]]]

\* a recipe without a crafting time is given a time of one second
AssignWorkTimed(w, ex, recipe, crafts, total_speed) ==
    IF ex.status # "ok" THEN ex
    ELSE IF total_speed = Zero
         THEN (IF w.data.recipes[recipe].crafting_time = None THEN ex
               ELSE Panic(ex, "No machines that can craft"))
    ELSE Shared(w, ex, MachinesUsed(w, recipe), crafts, total_speed,
                IF w.data.recipes[recipe].crafting_time = None THEN One
                ELSE w.data.recipes[recipe].crafting_time)

\* the work is shared without looking at total_speed
AssignWorkUnchecked(w, ex, recipe, crafts, total_speed) ==
    IF ex.status # "ok" THEN ex
    ELSE IF w.data.recipes[recipe].crafting_time = None THEN ex
    ELSE Shared(w, ex, MachinesUsed(w, recipe), crafts, total_speed,
                w.data.recipes[recipe].crafting_time)

\* with no machine to do the work, nothing is added and nothing fails
AssignWorkIdle(w, ex, recipe, crafts, total_speed) ==
    IF ex.status # "ok" THEN ex
    ELSE IF w.data.recipes[recipe].crafting_time = None THEN ex
    ELSE IF total_speed = Zero THEN ex
    ELSE Shared(w, ex, MachinesUsed(w, recipe), crafts, total_speed,
                w.data.recipes[recipe].crafting_time)

\* the `if let Some(recipe_crafting_time)` block of craft_recipe: the work of
\* `crafts` firings is shared among the machines that cover the category
AssignWork(w, ex, recipe, crafts, total_speed) ==
    IF ex.status # "ok" THEN ex
    ELSE IF w.data.recipes[recipe].crafting_time = None THEN ex
    ELSE IF total_speed = Zero THEN Panic(ex, "No machines that can craft")
    ELSE Shared(w, ex, MachinesUsed(w, recipe), crafts, total_speed,
                w.data.recipes[recipe].crafting_time)

\* the ingredient amount of a single firing
UnscaledDemand(ingredient_amount, crafts) == ingredient_amount

\* ingredient_amount * crafts: what craft_recipe demands of an ingredient
IngredientDemand(ingredient_amount, crafts) == NumMul(ingredient_amount, crafts)

RECURSIVE craft(_, _, _, _)
RECURSIVE craft_recipe(_, _, _, _)
RECURSIVE CraftIngredients(_, _, _, _)
RECURSIVE CraftIngredientsFrom(_, _, _, _, _)

\* StepPlanner::craft once find_recipe_for has answered
CraftFound(w, ex, item, amount, found) ==
    IF found.kind = "panic" THEN Panic(ex, found.name)
    ELSE IF found.kind = "none" THEN Panic(ex, "Could not find recipe")
    ELSE IF found.name \notin DOMAIN w.data.recipes THEN Panic(ex, "recipes index")
    ELSE IF item \notin Keys(w.data.recipes[found.name].results)
         THEN Panic(ex, "results index")
    ELSE craft_recipe(w, ex, found.name,
                      NumDiv(amount, Get(w.data.recipes[found.name].results, item)))

\* StepPlanner::craft
craft(w, ex, item, amount) ==
    IF ex.status # "ok" THEN ex
    ELSE CHOOSE v \in {CraftFound(w, ex, item, amount, found) :
                          found \in {find_recipe_for(w, item)}} : TRUE

\* the ingredient g is crafted, then the rest of the ingredients
CraftIngredientsFrom(w, ex, g, rest, crafts) ==
    CHOOSE v \in {CraftIngredients(w, next, rest, crafts) :
                     next \in {craft(w, ex, g.item,
                                     IngredientDemand(g.amount, crafts))}} : TRUE

\* the loop over recipe.ingredients of craft_recipe
CraftIngredients(w, ex, ings, crafts) ==
    IF ings = {} \/ ex.status # "ok" THEN ex
    ELSE CHOOSE v \in {CraftIngredientsFrom(w, ex, g, ings \ {g}, crafts) :
                          g \in {CHOOSE x \in ings : TRUE}} : TRUE

\* the crafts entry is overwritten instead of added to
CraftRecipeOverwriting(w, ex, recipe, crafts) ==
    IF ex.status # "ok" THEN ex
    ELSE IF recipe \notin DOMAIN w.data.recipes THEN Panic(ex, "recipe not found")
    ELSE CHOOSE v \in
           {AssignWork(w, ex2, recipe, crafts, total_speed) :
               ex2 \in {CraftIngredients(w, [ex EXCEPT !.crafts[recipe] = crafts],
                                         w.data.recipes[recipe].ingredients, crafts)},
               total_speed \in {SumSpeed(w, MachinesUsed(w, recipe))}} : TRUE

\* StepPlanner::craft_recipe
craft_recipe(w, ex, recipe, crafts) ==
    IF ex.status # "ok" THEN ex
    ELSE IF recipe \notin DOMAIN w.data.recipes THEN Panic(ex, "recipe not found")
    ELSE CHOOSE v \in
           {AssignWork(w, ex2, recipe, crafts, total_speed) :
               ex2 \in {CraftIngredients(w, [ex EXCEPT !.crafts[recipe] = NumAdd(@, crafts)],
                                         w.data.recipes[recipe].ingredients, crafts)},
               total_speed \in {SumSpeed(w, MachinesUsed(w, recipe))}} : TRUE

\* the build is recorded and nothing is crafted for it
BuildWithoutCraft(w, ex, machine, amount) ==
    IF ex.status # "ok" THEN ex
    ELSE [ex EXCEPT !.builds[machine] = @ + amount]

\* StepPlanner::build
build(w, ex, machine, amount) ==
    IF ex.status # "ok" THEN ex
    ELSE craft(w, [ex EXCEPT !.builds[machine] = @ + amount], machine, FromInt(amount))

\* ------------------------------------------------------------------------
\* StepPlanner::finalize: the energy-loop closure
\* ------------------------------------------------------------------------
ZeroTimes(w) == [m \in DOMAIN w.data.machines |-> Zero]

\* the state of the while loop: the planner, total_times, done
NewFinalize(w, ex) ==
    [executed |-> ex, total_times |-> ZeroTimes(w), done |-> FALSE, passes |-> 0]

\* usage * single_machine_time for one energy_usage entry
EnergyAmount(usage, single_machine_time) == NumMul(usage, single_machine_time)

\* a demand above one unit
ExceedsOne(energy_amount) == NumLt(One, energy_amount)

\* is the demand fed back as a craft (the `continue` of finalize is the negation)
FedBack(energy_amount) == ~NumLt(energy_amount, EnergyThreshold)

\* the energy demands one pass feeds back: (machine, energy item, amount)
Demands(w, pending) ==
    UNION {{[machine |-> m, item |-> u.item,
             amount |-> EnergyAmount(u.amount, pending[m])] :
               u \in {v \in w.data.machines[m].energy_usage :
                        FedBack(EnergyAmount(v.amount, pending[m]))}} :
           m \in DOMAIN w.data.machines}

RECURSIVE CraftDemands(_, _, _)
RECURSIVE CraftDemandsFrom(_, _, _, _)

\* the demand d is crafted, then the rest of the demands
CraftDemandsFrom(w, ex, d, rest) ==
    CHOOSE v \in {CraftDemands(w, next, rest) :
                     next \in {craft(w, ex, d.item, d.amount)}} : TRUE

\* `self.craft(energy_item, energy_amount)` for every demand of the pass
CraftDemands(w, ex, demands) ==
    IF demands = {} \/ ex.status # "ok" THEN ex
    ELSE CHOOSE v \in {CraftDemandsFrom(w, ex, d, demands \ {d}) :
                          d \in {CHOOSE x \in demands : TRUE}} : TRUE

\* total_times takes the pending times of the pass in place of its own
PassedOverwriting(w, st, pending, demands) ==
    [executed |-> CraftDemands(w, [st.executed EXCEPT !.single_machine_time = ZeroTimes(w)],
                               demands),
     total_times |-> [m \in DOMAIN w.data.machines |->
                         IF pending[m] = Zero THEN st.total_times[m] ELSE pending[m]],
     done |-> demands = {},
     passes |-> st.passes + 1]

\* the loop state after the demands of the pending times have been crafted
Passed(w, st, pending, demands) ==
    [executed |-> CraftDemands(w, [st.executed EXCEPT !.single_machine_time = ZeroTimes(w)],
                               demands),
     total_times |-> [m \in DOMAIN w.data.machines |->
                         NumAdd(st.total_times[m], pending[m])],
     done |-> demands = {},
     passes |-> st.passes + 1]

\* one iteration of `while !done`
FinalizePass(w, st) ==
    CHOOSE v \in {Passed(w, st, st.executed.single_machine_time, demands) :
                     demands \in {Demands(w, st.executed.single_machine_time)}} : TRUE

\* what finalize returns once the loop has exited
FinalizeReturn(st) == [st.executed EXCEPT !.single_machine_time = st.total_times]

\* the whole of finalize; "hang" when the loop is still running after
\* MaxPasses passes
RECURSIVE FinalizeLoop(_, _)
FinalizeLoop(w, st) ==
    IF st.executed.status # "ok" THEN st.executed
    ELSE IF st.done THEN FinalizeReturn(st)
    ELSE IF st.passes >= MaxPasses
         THEN [st.executed EXCEPT !.status = "hang", !.error = "finalize does not return"]
    ELSE CHOOSE v \in {FinalizeLoop(w, next) : next \in {FinalizePass(w, st)}} : TRUE

finalize(w, ex) ==
    CHOOSE v \in {FinalizeLoop(w, st) : st \in {NewFinalize(w, ex)}} : TRUE

\* ------------------------------------------------------------------------
\* ExecutedStep::machine_times / execute
\* ------------------------------------------------------------------------
\* machines with an entry in single_machine_time
Occupied(step) == {m \in DOMAIN step.single_machine_time : step.single_machine_time[m] # Zero}

machine_times(step, w) ==
    [m \in Occupied(step) |-> NumDiv(step.single_machine_time[m], FromInt(w.machines[m]))]

RECURSIVE MaxOf(_, _)
MaxOf(times, ms) ==
    IF ms = {} THEN Zero
    ELSE CHOOSE v \in {NumMax(times[m], MaxOf(times, ms \ {m})) :
                          m \in {CHOOSE x \in ms : TRUE}} : TRUE

\* times.into_values().max().unwrap_or_default()
total_time(step, w) ==
    CHOOSE v \in {MaxOf(times, DOMAIN times) : times \in {machine_times(step, w)}} : TRUE

\* world.machines after the builds loop
ApplyBuilds(step, w) ==
    [m \in (DOMAIN w.machines) \cup {x \in DOMAIN step.builds : step.builds[x] # 0} |->
        (IF m \in DOMAIN w.machines THEN w.machines[m] ELSE 0) + step.builds[m]]

\* the builds are applied first and the times divided by the new counts
ExecuteBuildsFirst(step, w) ==
    [w EXCEPT !.machines = ApplyBuilds(step, w),
              !.time = NumAdd(w.time,
                              total_time(step, [w EXCEPT !.machines = ApplyBuilds(step, w)]))]

\* ExecutedStep::execute
execute(step, w) ==
    [w EXCEPT !.machines = ApplyBuilds(step, w),
              !.time = NumAdd(w.time, total_time(step, w))]

\* ------------------------------------------------------------------------
\* Tasks { build, craft, craft_recipe } and Tasks::execute
\* ------------------------------------------------------------------------
NoTasks == [craft |-> EmptyMap, craft_recipe |-> EmptyMap, build |-> EmptyMap]

CraftTask(item, amount) == [NoTasks EXCEPT !.craft = Put(EmptyMap, item, FromInt(amount))]
CraftRecipeTask(recipe, amount) ==
    [NoTasks EXCEPT !.craft_recipe = Put(EmptyMap, recipe, FromInt(amount))]
BuildTask(machine, amount) == [NoTasks EXCEPT !.build = Put(EmptyMap, machine, amount)]

RECURSIVE PlanCrafts(_, _, _, _)
RECURSIVE PlanCraftsFrom(_, _, _, _, _)

PlanCraftsFrom(w, ex, map, k, rest) ==
    CHOOSE v \in {PlanCrafts(w, next, map, rest) :
                     next \in {craft(w, ex, k, map[k])}} : TRUE

\* `for (item, amount) in &self.craft`
PlanCrafts(w, ex, map, keys) ==
    IF keys = {} \/ ex.status # "ok" THEN ex
    ELSE CHOOSE v \in {PlanCraftsFrom(w, ex, map, k, keys \ {k}) :
                          k \in {CHOOSE x \in keys : TRUE}} : TRUE

RECURSIVE PlanCraftRecipes(_, _, _, _)
RECURSIVE PlanCraftRecipesFrom(_, _, _, _, _)

PlanCraftRecipesFrom(w, ex, map, k, rest) ==
    CHOOSE v \in {PlanCraftRecipes(w, next, map, rest) :
                     next \in {craft_recipe(w, ex, k, map[k])}} : TRUE

\* `for (recipe, amount) in &self.craft_recipe`
PlanCraftRecipes(w, ex, map, keys) ==
    IF keys = {} \/ ex.status # "ok" THEN ex
    ELSE CHOOSE v \in {PlanCraftRecipesFrom(w, ex, map, k, keys \ {k}) :
                          k \in {CHOOSE x \in keys : TRUE}} : TRUE

RECURSIVE PlanBuilds(_, _, _, _)
RECURSIVE PlanBuildsFrom(_, _, _, _, _)

PlanBuildsFrom(w, ex, map, k, rest) ==
    CHOOSE v \in {PlanBuilds(w, next, map, rest) :
                     next \in {build(w, ex, k, map[k])}} : TRUE

\* `for (machine, amount) in &self.build`
PlanBuilds(w, ex, map, keys) ==
    IF keys = {} \/ ex.status # "ok" THEN ex
    ELSE CHOOSE v \in {PlanBuildsFrom(w, ex, map, k, keys \ {k}) :
                          k \in {CHOOSE x \in keys : TRUE}} : TRUE

\* the craft_recipe loop and the build loop, after the craft loop
ExpandRest(w, tasks, a) ==
    CHOOSE v \in {PlanBuilds(w, b, tasks.build, DOMAIN tasks.build) :
                     b \in {PlanCraftRecipes(w, a, tasks.craft_recipe,
                                              DOMAIN tasks.craft_recipe)}} : TRUE

\* the three loops of Tasks::execute: the initial expansion
Expand(w, tasks) ==
    CHOOSE v \in {ExpandRest(w, tasks, a) :
                     a \in {PlanCrafts(w, NewExecutedStep(w), tasks.craft,
                                        DOMAIN tasks.craft)}} : TRUE

\* planner.finalize() of Tasks::execute
Planned(w, tasks) ==
    CHOOSE v \in {finalize(w, ex) : ex \in {Expand(w, tasks)}} : TRUE

\* the outcome of Tasks::execute for the planned step
Executed(w, tasks, planned) ==
    [status |-> planned.status,
     error |-> planned.error,
     step |-> planned,
     before |-> w,
     tasks |-> tasks,
     world |-> IF planned.status = "ok" THEN execute(planned, w) ELSE w]

\* Tasks::execute: the World it leaves, with the step that was applied; a
\* panic or a loop that does not return leaves the World as it was
TasksExecute(w, tasks) ==
    CHOOSE v \in {Executed(w, tasks, planned) : planned \in {Planned(w, tasks)}} : TRUE

\* ------------------------------------------------------------------------
\* Plan { splits }, Plan::execute and Planner::think
\* ------------------------------------------------------------------------
RECURSIVE RunSplits(_, _, _)

\* the next bundle starts from the World the run started with
RunStale(acc, splits, i, r) ==
    CHOOSE v \in {RunSplits(next, splits, i + 1) :
                     next \in {[status |-> r.status, error |-> r.error,
                                world |-> acc.world,
                                steps |-> Append(acc.steps, r)]}} : TRUE

\* the run after the bundle splits[i] has executed with outcome r
RunNext(acc, splits, i, r) ==
    CHOOSE v \in {RunSplits(next, splits, i + 1) :
                     next \in {[status |-> r.status, error |-> r.error,
                                world |-> r.world,
                                steps |-> Append(acc.steps, r)]}} : TRUE

\* `for tasks in splits { tasks.execute(world) }`: the World after the
\* bundles, and the steps applied on the way
RunSplits(acc, splits, i) ==
    IF acc.status # "ok" \/ i > Len(splits) THEN acc
    ELSE CHOOSE v \in {RunNext(acc, splits, i, r) :
                          r \in {TasksExecute(acc.world, splits[i])}} : TRUE

\* the bundles executed in order on a clone of the World
Simulate(w, splits) ==
    RunSplits([status |-> "ok", error |-> "", world |-> w, steps |-> <<>>], splits, 1)

Reverse(seq) == [i \in 1..Len(seq) |-> seq[Len(seq) + 1 - i]]

\* the bundles run last to first
ExecuteReversed(w, splits) == Simulate(w, Reverse(splits))

\* Plan::execute
PlanExecute(w, splits) == Simulate(w, splits)

\* larger amounts are tried
ThinkAmountsFromFive == <<5, 6, 7, 8>>

\* the amounts the improve loop tries
ThinkAmounts == <<1, 2, 3, 4>>

\* the bundle takes the place of the one at pos
InsertOver(splits, pos, tasks) ==
    SubSeq(splits, 1, pos) \o <<tasks>> \o SubSeq(splits, pos + 2, Len(splits))

InsertAt(splits, pos, tasks) ==
    SubSeq(splits, 1, pos) \o <<tasks>> \o SubSeq(splits, pos + 1, Len(splits))

\* the candidate the three for loops visit i-th, with `positions` places to
\* insert at
Candidate(order, positions, i) ==
    [machine |-> order[((i - 1) \div (Len(ThinkAmounts) * positions)) + 1],
     amount |-> ThinkAmounts[(((i - 1) % (Len(ThinkAmounts) * positions))
                                \div positions) + 1],
     pos |-> (i - 1) % positions]

\* the candidates of one improve-loop iteration in the order the three for
\* loops visit them; order is the iteration order of world.machines.keys()
Candidates(w, splits, order) ==
    [i \in 1..(Len(order) * Len(ThinkAmounts) * (Len(splits) + 1)) |->
        Candidate(order, Len(splits) + 1, i)]

\* the times are compared in whole minutes
VerdictOnMinutes(splits, new_splits, sim, time_to_beat) ==
    IF sim.status # "ok"
    THEN [kind |-> sim.status, splits |-> splits, error |-> sim.error]
    ELSE IF (sim.world.time[1] + 60 * sim.world.time[2] - 1) \div (60 * sim.world.time[2])
              < (time_to_beat[1] + 60 * time_to_beat[2] - 1) \div (60 * time_to_beat[2])
    THEN [kind |-> "improved", splits |-> new_splits, error |-> ""]
    ELSE [kind |-> "skip", splits |-> splits, error |-> ""]

\* the verdict on a candidate whose simulation gave sim
Verdict(splits, new_splits, sim, time_to_beat) ==
    IF sim.status # "ok"
    THEN [kind |-> sim.status, splits |-> splits, error |-> sim.error]
    ELSE IF NumLt(sim.world.time, time_to_beat)
    THEN [kind |-> "improved", splits |-> new_splits, error |-> ""]
    ELSE [kind |-> "skip", splits |-> splits, error |-> ""]

\* what the loop body does with the candidate list new_splits
TryInserted(w, splits, new_splits, time_to_beat) ==
    CHOOSE v \in {Verdict(splits, new_splits, sim, time_to_beat) :
                     sim \in {Simulate(w, new_splits)}} : TRUE

\* what the loop body does with one candidate: "skip" (no recipe for the
\* machine, or no improvement), "improved", or the panic / hang of its
\* simulation
TryCandidate(w, splits, c, time_to_beat) ==
    IF find_recipe_for(w, c.machine).kind = "none"
    THEN [kind |-> "skip", splits |-> splits, error |-> ""]
    ELSE CHOOSE v \in {TryInserted(w, splits, new_splits, time_to_beat) :
              new_splits \in {InsertAt(splits, c.pos, BuildTask(c.machine, c.amount))}} : TRUE

\* the first candidate that is not skipped
Decisive(splits, tried, decisive) ==
    IF decisive = {}
    THEN [kind |-> "break", splits |-> splits, error |-> ""]
    ELSE tried[CHOOSE i \in decisive : \A j \in decisive : i <= j]

FirstDecisive(splits, tried) ==
    Decisive(splits, tried, {i \in DOMAIN tried : tried[i].kind # "skip"})

\* the scan of the candidates: the first one that is not skipped decides
\* (it is committed, or its panic unwinds think); `break` when all are skipped
ScanCandidates(w, splits, cands, time_to_beat) ==
    CHOOSE v \in {FirstDecisive(splits, tried) :
                     tried \in {[i \in 1..Len(cands) |->
                                   TryCandidate(w, splits, cands[i], time_to_beat)]}} : TRUE

\* the iteration once the time to beat is known
ScanFrom(w, splits, order, base) ==
    IF base.status # "ok"
    THEN [kind |-> base.status, splits |-> splits, error |-> base.error]
    ELSE CHOOSE v \in {ScanCandidates(w, splits, cands, base.world.time) :
                          cands \in {Candidates(w, splits, order)}} : TRUE

\* one iteration of 'improve_loop
ThinkIteration(w, splits, order) ==
    CHOOSE v \in {ScanFrom(w, splits, order, base) :
                     base \in {Simulate(w, splits)}} : TRUE

RECURSIVE ThinkLoop(_, _, _, _)

\* what the loop does with the outcome of an iteration
ThinkStep(w, splits, order, n, it) ==
    IF it.kind = "break" THEN [status |-> "ok", error |-> "", splits |-> splits]
    ELSE IF it.kind = "improved"
         THEN IF n >= MaxThink
              THEN [status |-> "hang", error |-> "think does not return",
                    splits |-> it.splits]
              ELSE ThinkLoop(w, it.splits, order, n + 1)
    ELSE [status |-> it.kind, error |-> it.error, splits |-> splits]

\* Planner::think: the Plan, or a panic, or "hang" when the loop is still
\* improving after MaxThink iterations
ThinkLoop(w, splits, order, n) ==
    CHOOSE v \in {ThinkStep(w, splits, order, n, it) :
                     it \in {ThinkIteration(w, splits, order)}} : TRUE

think(w, splits, order) == ThinkLoop(w, splits, order, 1)

\* the outcome of executing the Plan
PlanOutcome(plan, done) ==
    [status |-> done.status, error |-> done.error, world |-> done.world,
     steps |-> done.steps, plan |-> plan.splits]

\* `.execute(world)` on what think returned
ExecutePlan(w, plan) ==
    IF plan.status # "ok"
    THEN [status |-> plan.status, error |-> plan.error, world |-> w,
          steps |-> <<>>, plan |-> plan.splits]
    ELSE CHOOSE v \in {PlanOutcome(plan, done) :
                          done \in {PlanExecute(w, plan.splits)}} : TRUE

\* planner().add_tasks(..)...think().execute(world)
ThinkAndExecute(w, bundles, order) ==
    CHOOSE v \in {ExecutePlan(w, plan) : plan \in {think(w, bundles, order)}} : TRUE

\* ------------------------------------------------------------------------
\* World::research
\* ------------------------------------------------------------------------
\* no tech counts as researched
NeverResearched(w, name) == FALSE

\* `if self.researches.contains(&research) { return; }`
AlreadyResearched(w, name) == name \in w.researches

RECURSIVE research(_, _, _)
RECURSIVE ResearchDependencies(_, _, _, _)

\* the dependencies are left alone
SkipDependencies(acc, deps, i, order) == acc

\* `for dependency in &research.dependencies { self.research(dependency) }`
ResearchDependencies(acc, deps, i, order) ==
    IF acc.status # "ok" \/ i > Len(deps) THEN acc
    ELSE CHOOSE v \in {ResearchDependencies(next, deps, i + 1, order) :
                          next \in {research(acc, deps[i], order)}} : TRUE

\* `self.researches.insert(research.name)` after the Plan has executed
Researched(deps, name, r) ==
    IF r.status # "ok"
    THEN [deps EXCEPT !.status = r.status, !.error = r.error]
    ELSE [status |-> "ok", error |-> "",
          world |-> [r.world EXCEPT !.researches = @ \cup {name}],
          inserted |-> Append(deps.inserted, name),
          steps |-> deps.steps \o r.steps]

\* the research recipe is executed as the caller's bundle, without think()
ResearchVerbatim(deps, name, order) ==
    IF deps.status # "ok" THEN deps
    ELSE CHOOSE v \in {Researched(deps, name, r) :
              r \in {PlanExecute(deps.world,
                                 <<CraftRecipeTask(ResearchRecipe(name), 1)>>)}} : TRUE

\* the research recipe of the tech is planned and executed
ResearchRecipeOf(deps, name, order) ==
    IF deps.status # "ok" THEN deps
    ELSE CHOOSE v \in {Researched(deps, name, r) :
              r \in {ThinkAndExecute(deps.world,
                                     <<CraftRecipeTask(ResearchRecipe(name), 1)>>,
                                     order)}} : TRUE

\* acc carries the World through the recursion, with the techs inserted
\* (in order) and the steps executed so far
research(acc, name, order) ==
    IF acc.status # "ok" THEN acc
    ELSE IF AlreadyResearched(acc.world, name) THEN acc
    ELSE IF name \notin DOMAIN acc.world.data.researches
         THEN [acc EXCEPT !.status = "panic", !.error = "researches index"]
    ELSE CHOOSE v \in {ResearchRecipeOf(deps, name, order) :
              deps \in {ResearchDependencies(acc,
                            acc.world.data.researches[name].dependencies, 1, order)}} : TRUE

\* ------------------------------------------------------------------------
\* The state: the World, a record of the last call made on it, and the
\* closure loop of a step planner that is being followed pass by pass
\* ------------------------------------------------------------------------
VARIABLES world, last, ops, run

vars == <<world, last, ops, run>>

\* iteration orders of world.machines.keys() the model follows
MachineList ==
    <<"burner-mining-drill", "character crafting", "character mining", "free",
      "lab", "steam-engine", "stone-furnace">>

Owned(w, seq) == SelectSeq(seq, LAMBDA m : m \in DOMAIN w.machines)

\* the machines that are items with a recipe: only these give candidates
Buildable(w) ==
    {m \in DOMAIN w.data.machines :
        \E r \in DOMAIN w.data.recipes : m \in Keys(w.data.recipes[r].results)}

\* orders that differ only in where the machines without a recipe stand
\* give the same candidates, so one order stands for them
MachineOrders(w) ==
    IF Cardinality(DOMAIN w.machines \cap Buildable(w)) <= 1
    THEN {Owned(w, MachineList)}
    ELSE {Owned(w, MachineList), Owned(w, Reverse(MachineList))}

Amounts == {1, MaxAmount}

\* the items a caller asks World::craft for
CraftItems == {"iron-ore", "coal", "iron-plate", "water", "uranium-ore",
               EnergyChemical, EnergyElectric}

\* the machines a caller asks World::build for: the machines with a recipe
\* and one without
BuildChoices == {"burner-mining-drill", "stone-furnace", "lab", "steam-engine", "free"}

\* the fuels a caller names in prefer_fuel
FuelChoices == {"coal", "wood"}

\* the machines a caller names in destroy_all
DestroyChoices == {"character mining", "free", "burner-mining-drill"}

\* a bundle with a build and a craft_recipe entry
LabAndResearch ==
    [NoTasks EXCEPT !.build = Put(EmptyMap, "lab", 1),
                    !.craft_recipe = Put(EmptyMap, "research automation", One)]

\* a bundle that builds a lab and the generator that powers it
LabAndEngine ==
    [NoTasks EXCEPT !.build = Put(Put(EmptyMap, "lab", 1), "steam-engine", 1)]

\* the lists of bundles a caller hands to planner().add_tasks(..)
PlanChoices ==
    {<<CraftRecipeTask("research automation", 1)>>,
     <<BuildTask("lab", 1), CraftRecipeTask("research automation", 1)>>,
     <<LabAndResearch>>,
     <<CraftTask("iron-ore", MaxAmount), BuildTask("burner-mining-drill", 1)>>,
     <<BuildTask("burner-mining-drill", 1), CraftTask("iron-plate", MaxAmount)>>,
     <<CraftRecipeTask("water", 1)>>,
     <<LabAndEngine, CraftRecipeTask("research automation", 1)>>}

NoCall ==
    [op |-> "new", arg |-> "", amount |-> 0, status |-> "ok", error |-> "",
     before |-> NewWorld, bundles |-> <<>>, plan |-> <<>>, steps |-> <<>>,
     inserted |-> <<>>]

IdleRun ==
    [pc |-> "idle", tasks |-> NoTasks,
     st |-> NewFinalize(NewWorld, NewExecutedStep(NewWorld)),
     prev |-> NewFinalize(NewWorld, NewExecutedStep(NewWorld))]

\* a call of the API as a value: the scripts that lead to the starting Worlds
Call(op, arg, amount) == [op |-> op, arg |-> arg, amount |-> amount]

NewResearch(w) ==
    [status |-> "ok", error |-> "", world |-> w, inserted |-> <<>>, steps |-> <<>>]

\* the bundle World::craft / World::build hands to the planner
CallBundle(call) ==
    IF call.op = "craft" THEN CraftTask(call.arg, call.amount)
    ELSE BuildTask(call.arg, call.amount)

\* the World after one call (the World is kept when the call panics)
ApplyCall(w, call) ==
    CASE call.op \in {"craft", "build"} ->
           ThinkAndExecute(w, <<CallBundle(call)>>, Owned(w, MachineList)).world
      [] call.op = "prefer_fuel" ->
           [w EXCEPT !.preferred_fuel = Put(@, "chemical", call.arg)]
      [] call.op = "destroy_all" ->
           [w EXCEPT !.machines = Remove(@, call.arg)]
      [] call.op = "research" ->
           research(NewResearch(w), call.arg, Owned(w, MachineList)).world

RECURSIVE RunScript(_, _, _)
RunScript(w, script, i) ==
    IF i > Len(script) THEN w
    ELSE CHOOSE v \in {RunScript(next, script, i + 1) :
                          next \in {ApplyCall(w, script[i])}} : TRUE

\* driver scripts run on a fresh World before the calls that are explored
Scripts ==
    {<<>>,
     <<Call("destroy_all", "free", 0)>>,
     <<Call("build", "lab", 1), Call("build", "steam-engine", 1)>>,
     <<Call("build", "lab", 1), Call("build", "steam-engine", 1),
       Call("research", "logistics", 0)>>,
     <<Call("build", "burner-mining-drill", 1)>>,
     <<Call("prefer_fuel", "coal", 0), Call("build", "burner-mining-drill", 1)>>,
     <<Call("prefer_fuel", "wood", 0), Call("build", "burner-mining-drill", 1)>>,
     <<Call("prefer_fuel", "coal", 0), Call("build", "burner-mining-drill", 1),
       Call("build", "stone-furnace", 1)>>}

Init ==
    /\ \E script \in Scripts : world = RunScript(NewWorld, script, 1)
    /\ last = [NoCall EXCEPT !.before = world]
    /\ ops = 0
    /\ run = IdleRun

\* the record of a call that went through think().execute()
Planned_Call(op, arg, amount, bundles, r) ==
    [op |-> op, arg |-> arg, amount |-> amount, status |-> r.status, error |-> r.error,
     before |-> world, bundles |-> bundles, plan |-> r.plan, steps |-> r.steps,
     inserted |-> <<>>]

\* a call returns (or unwinds with a panic); a call that does not return
\* has no next state
Returns(r) == r.status \in {"ok", "panic"}

\* the program is running: a panic of an earlier call has ended it
Running == ops < MaxOps /\ last.status = "ok"

\* world.planner().add_tasks(..)...think().execute(&mut world)
Plan(bundles) ==
    /\ Running
    /\ \E order \in MachineOrders(world) :
         \E r \in {ThinkAndExecute(world, bundles, order)} :
             /\ Returns(r)
             /\ world' = r.world
             /\ last' = Planned_Call("plan", "", 0, bundles, r)
    /\ ops' = ops + 1
    /\ UNCHANGED run

\* World::craft
Craft(item, amount) ==
    /\ Running
    /\ \E order \in MachineOrders(world) :
         \E r \in {ThinkAndExecute(world, <<CraftTask(item, amount)>>, order)} :
             /\ Returns(r)
             /\ world' = r.world
             /\ last' = Planned_Call("craft", item, amount, <<CraftTask(item, amount)>>, r)
    /\ ops' = ops + 1
    /\ UNCHANGED run

\* World::build
Build(machine, amount) ==
    /\ Running
    /\ \E order \in MachineOrders(world) :
         \E r \in {ThinkAndExecute(world, <<BuildTask(machine, amount)>>, order)} :
             /\ Returns(r)
             /\ world' = r.world
             /\ last' = Planned_Call("build", machine, amount,
                                     <<BuildTask(machine, amount)>>, r)
    /\ ops' = ops + 1
    /\ UNCHANGED run

\* World::prefer_fuel
PreferFuel(category, item) ==
    /\ Running
    /\ world' = [world EXCEPT !.preferred_fuel = Put(@, category, item)]
    /\ last' = [NoCall EXCEPT !.op = "prefer_fuel", !.arg = item, !.before = world]
    /\ ops' = ops + 1
    /\ UNCHANGED run

\* World::destroy_all
DestroyAll(machine) ==
    /\ Running
    /\ world' = [world EXCEPT !.machines = Remove(@, machine)]
    /\ last' = [NoCall EXCEPT !.op = "destroy_all", !.arg = machine, !.before = world]
    /\ ops' = ops + 1
    /\ UNCHANGED run

\* World::research
Research(name) ==
    /\ Running
    /\ \E order \in MachineOrders(world) :
         \E r \in {research(NewResearch(world), name, order)} :
             /\ Returns(r)
             /\ world' = r.world
             /\ last' = [NoCall EXCEPT !.op = "research", !.arg = name,
                                       !.status = r.status, !.error = r.error,
                                       !.before = world, !.steps = r.steps,
                                       !.inserted = r.inserted]
    /\ ops' = ops + 1
    /\ UNCHANGED run

Next ==
    \/ \E bundles \in PlanChoices : Plan(bundles)
    \/ \E item \in CraftItems, amount \in Amounts : Craft(item, amount)
    \/ \E machine \in BuildChoices, amount \in Amounts : Build(machine, amount)
    \/ \E category \in FuelCategories, item \in FuelChoices : PreferFuel(category, item)
    \/ \E machine \in DestroyChoices : DestroyAll(machine)
    \/ \E name \in ResearchNames : Research(name)

Spec == Init /\ [][Next]_vars

\* ------------------------------------------------------------------------
\* The closure loop of StepPlanner::finalize, one pass at a time: the first
\* thing think() does with a bundle is Tasks::execute on a clone of the World
\* ------------------------------------------------------------------------
\* the bundles whose planning is followed
BundleChoices ==
    {CraftTask(item, amount) : item \in CraftItems, amount \in Amounts}
    \cup {BuildTask(machine, amount) : machine \in Buildable(NewWorld), amount \in Amounts}
    \cup {CraftRecipeTask("research automation", 1), LabAndResearch}

\* the three loops of Tasks::execute, then `let mut done = false`
StartBundle(tasks) ==
    /\ run.pc = "idle"
    /\ \E ex \in {Expand(world, tasks)} :
         run' = [pc |-> IF ex.status = "ok" THEN "loop" ELSE "panicked",
                 tasks |-> tasks, st |-> NewFinalize(world, ex),
                 prev |-> NewFinalize(world, ex)]
    /\ UNCHANGED <<world, last, ops>>

\* one iteration of `while !done`
Pass ==
    /\ run.pc = "loop"
    /\ ~run.st.done
    /\ run.st.passes < MaxPasses
    /\ \E next \in {FinalizePass(world, run.st)} :
         run' = [run EXCEPT !.pc = IF next.executed.status = "ok" THEN "loop" ELSE "panicked",
                            !.st = next, !.prev = run.st]
    /\ UNCHANGED <<world, last, ops>>

\* the loop exits and finalize returns self.executed
Return ==
    /\ run.pc = "loop"
    /\ run.st.done
    /\ run' = [run EXCEPT !.pc = "returned",
                          !.st.executed = FinalizeReturn(run.st)]
    /\ UNCHANGED <<world, last, ops>>

NextFinalize ==
    \/ \E tasks \in BundleChoices : StartBundle(tasks)
    \/ Pass
    \/ Return

SpecFinalize == Init /\ [][NextFinalize]_vars

\* the guard of Pass: a pass always changes the state it starts from
PassEnabled == run.pc = "loop" /\ ~run.st.done /\ run.st.passes < MaxPasses

\* the loop is scheduled as long as it has a pass to make (weak fairness of
\* Pass, with its enabling condition written out, and of Return)
SpecFinalizeFair ==
    /\ SpecFinalize
    /\ ([]<>(~PassEnabled) \/ []<><<Pass>>_vars)
    /\ WF_vars(Return)

\* ------------------------------------------------------------------------
\* Tasks::execute followed entry by entry: the three maps of a bundle and
\* the machine times of a closure pass are HashMaps, so the loops visit
\* their entries in an order the program does not choose
\* ------------------------------------------------------------------------
\* the kinds of entry in the order of the three loops of Tasks::execute
KindRank(kind) == CASE kind = "craft" -> 1 [] kind = "craft_recipe" -> 2 [] kind = "build" -> 3

\* the entries the three loops of Tasks::execute visit
Entries(tasks) ==
    {[kind |-> "craft", key |-> k, amount |-> tasks.craft[k], count |-> 0,
      machine |-> ""] : k \in DOMAIN tasks.craft}
    \cup {[kind |-> "craft_recipe", key |-> k, amount |-> tasks.craft_recipe[k],
           count |-> 0, machine |-> ""] : k \in DOMAIN tasks.craft_recipe}
    \cup {[kind |-> "build", key |-> k, amount |-> FromInt(tasks.build[k]),
           count |-> tasks.build[k], machine |-> ""] : k \in DOMAIN tasks.build}

\* the crafts a closure pass makes, one for each demand
DemandEntries(demands) ==
    {[kind |-> "craft", key |-> d.item, amount |-> d.amount, count |-> 0,
      machine |-> d.machine] : d \in demands}

\* the entries the running loop may visit next: a loop is over before the
\* next one starts, and inside a loop any entry may come first
Ready(todo) ==
    {e \in todo : \A f \in todo : KindRank(e.kind) <= KindRank(f.kind)}

\* the body of the loops: planner.craft / planner.craft_recipe / planner.build
PlanEntry(w, ex, e) ==
    CASE e.kind = "craft" -> craft(w, ex, e.key, e.amount)
      [] e.kind = "craft_recipe" -> craft_recipe(w, ex, e.key, e.amount)
      [] e.kind = "build" -> build(w, ex, e.key, e.count)

\* the head of a closure pass: the pending times are taken, added to
\* total_times, and the demands to feed back are known
PassBegun(w, st, demands) ==
    [Passed(w, st, st.executed.single_machine_time, {}) EXCEPT !.done = demands = {}]

\* the bundles whose expansion is followed: several entries in one map
OrderChoices ==
    {[NoTasks EXCEPT !.craft = Put(Put(EmptyMap, "iron-ore", One),
                                   "iron-plate", FromInt(MaxAmount))],
     [NoTasks EXCEPT !.craft = Put(Put(Put(EmptyMap, "iron-ore", One), "coal", One),
                                   "water", FromInt(MaxAmount))],
     [NoTasks EXCEPT !.craft = Put(Put(EmptyMap, EnergyChemical, One), "iron-ore", One)],
     [NoTasks EXCEPT !.craft = Put(EmptyMap, "iron-ore", One),
                     !.craft_recipe = Put(EmptyMap, "research automation", One),
                     !.build = Put(Put(EmptyMap, "lab", 1), "steam-engine", MaxAmount)],
     [NoTasks EXCEPT !.build = Put(Put(EmptyMap, "burner-mining-drill", 1),
                                   "stone-furnace", MaxAmount)],
     [NoTasks EXCEPT !.craft_recipe = Put(Put(EmptyMap, "iron-ore mining", One),
                                          "iron-plate", FromInt(MaxAmount))]}

\* StepPlanner::new(world)
BeginBundle(tasks) ==
    /\ run.pc = "idle"
    /\ run' = [pc |-> "expand", tasks |-> tasks,
               st |-> NewFinalize(world, NewExecutedStep(world)),
               prev |-> NewFinalize(world, NewExecutedStep(world)),
               todo |-> Entries(tasks)]
    /\ UNCHANGED <<world, last, ops>>

\* one iteration of one of the three loops of Tasks::execute
ExpandEntry ==
    /\ run.pc = "expand"
    /\ \E e \in Ready(run.todo) :
         \E ex \in {PlanEntry(world, run.st.executed, e)} :
             run' = [run EXCEPT !.pc = IF ex.status = "ok" THEN "expand" ELSE "panicked",
                                !.st.executed = ex, !.prev = run.st,
                                !.todo = @ \ {e}]
    /\ UNCHANGED <<world, last, ops>>

\* `while !done { done = true; let times = mem::take(..); .. }`
BeginPass ==
    /\ run.pc \in {"expand", "pass"}
    /\ run.todo = {}
    /\ ~run.st.done
    /\ run.st.passes < MaxPasses
    /\ \E demands \in {Demands(world, run.st.executed.single_machine_time)} :
         run' = [run EXCEPT !.pc = "pass", !.st = PassBegun(world, run.st, demands),
                            !.prev = run.st, !.todo = DemandEntries(demands)]
    /\ UNCHANGED <<world, last, ops>>

\* one `self.craft(energy_item, energy_amount)` of the pass
FeedBackEntry ==
    /\ run.pc = "pass"
    /\ \E e \in run.todo :
         \E ex \in {PlanEntry(world, run.st.executed, e)} :
             run' = [run EXCEPT !.pc = IF ex.status = "ok" THEN "pass" ELSE "panicked",
                                !.st.executed = ex, !.prev = run.st,
                                !.todo = @ \ {e}]
    /\ UNCHANGED <<world, last, ops>>

\* the loop exits and finalize returns self.executed
ReturnStep ==
    /\ run.pc = "pass"
    /\ run.todo = {}
    /\ run.st.done
    /\ run' = [run EXCEPT !.pc = "returned", !.prev = run.st,
                          !.st.executed = FinalizeReturn(run.st)]
    /\ UNCHANGED <<world, last, ops>>

NextOrder ==
    \/ \E tasks \in OrderChoices : BeginBundle(tasks)
    \/ ExpandEntry
    \/ BeginPass
    \/ FeedBackEntry
    \/ ReturnStep

SpecOrder == Init /\ [][NextOrder]_vars

\* ------------------------------------------------------------------------
\* World::new, the loop over raw.technology: the graph gets a Research
\* record and a "research <name>" recipe from each technology of the dump
\* ------------------------------------------------------------------------
\* TechnologyCount::Const { count } / TechnologyCount::Formula { .. }
ConstCount(count) == [kind |-> "const", count |-> count]
FormulaCount == [kind |-> "formula", count |-> 0]

\* a technology of the dump: name, prerequisites, unit { count, ingredients,
\* time } and the flag ignore_tech_cost_multiplier
Technology(name, prerequisites, count, ingredients, time, ignore) ==
    [name |-> name, prerequisites |-> prerequisites,
     unit |-> [count |-> count, ingredients |-> ingredients, time |-> time],
     ignore_tech_cost_multiplier |-> ignore]

\* no technology has been visited yet
NoTechnology == Technology("", <<>>, [kind |-> "none", count |-> 0], {}, 0, FALSE)

\* the technologies a dump may hold
RawTechnologies ==
    {Technology(name, prerequisites, count, ingredients, time, ignore) :
        name \in {"automation", "logistics"},
        prerequisites \in {<<>>, <<"optics">>},
        count \in {ConstCount(c) : c \in 1..MaxCount} \cup {FormulaCount},
        ingredients \in {{}, {Ing("iron-ore", 1, 1)}, {Ing("iron-ore", 2, 1), Ing("coal", 1, 2)}},
        time \in {5, 30},
        ignore \in BOOLEAN}

\* map_settings.difficulty_settings.technology_price_multiplier of the dump
PriceMultipliers == {1, 2}

\* Research { name, dependencies, recipe }
ResearchRecord(technology) ==
    [name |-> technology.name,
     dependencies |-> technology.prerequisites,
     recipe |-> ResearchRecipe(technology.name)]

\* the recipe synthesized for a technology with a constant count
TechnologyRecipe(technology) ==
    [category |-> "research",
     ingredients |-> {[item |-> g.item,
                       amount |-> NumMul(g.amount, FromInt(technology.unit.count.count))] :
                         g \in technology.unit.ingredients},
     results |-> {},
     crafting_time |-> NumMul(FromInt(technology.unit.time),
                              FromInt(technology.unit.count.count))]

\* the body of `for technology in raw.technology.values()`
InsertTechnology(data, technology) ==
    IF technology.unit.count.kind = "formula"
    THEN [data EXCEPT !.researches = Put(@, technology.name, ResearchRecord(technology))]
    ELSE [data EXCEPT !.researches = Put(@, technology.name, ResearchRecord(technology)),
                      !.recipes = Put(@, ResearchRecipe(technology.name),
                                      TechnologyRecipe(technology))]

\* the graph before the loop over the technologies: the recipes and the
\* machines of the dump, no Research record
GraphBeforeTechnologies ==
    [recipes |-> [r \in {x \in RecipeNames : Recipes[x].category # "research"} |->
                     Recipes[r]],
     machines |-> Machines,
     researches |-> [t \in {} |-> ResearchRecord(NoTechnology)]]

InitGraph ==
    /\ world = [NewWorld EXCEPT !.data = GraphBeforeTechnologies]
    /\ last = NoCall
    /\ ops = 0
    /\ \E multiplier \in PriceMultipliers :
         run = [pc |-> "technologies", technology |-> NoTechnology,
                multiplier |-> multiplier, visited |-> 0]

\* one iteration of the loop: raw.technology is a map, so no name comes twice
VisitTechnology(technology) ==
    /\ run.pc = "technologies"
    /\ technology.name \notin DOMAIN world.data.researches
    /\ world' = [world EXCEPT !.data = InsertTechnology(@, technology)]
    /\ run' = [run EXCEPT !.technology = technology, !.visited = @ + 1]
    /\ UNCHANGED <<last, ops>>

NextGraph == \E technology \in RawTechnologies : VisitTechnology(technology)

SpecGraph == InitGraph /\ [][NextGraph]_vars

\* ------------------------------------------------------------------------
\* number::parse (src/src/number.rs): a string is a sequence of characters;
\* the multiplier is a power of ten and is kept as its exponent, the parsed
\* number being value * 10^exp (10^18 does not fit TLC's integers)
\* ------------------------------------------------------------------------
\* MULTIPLIERS, in the order the loop of parse visits them
MULTIPLIERS ==
    <<[suffix |-> "K", exp |-> 3], [suffix |-> "M", exp |-> 6], [suffix |-> "G", exp |-> 9]>>

\* char::to_ascii_lowercase on the suffix letters
ToAsciiLowercase(c) ==
    CASE c = "K" -> "k" [] c = "M" -> "m" [] c = "G" -> "g" [] OTHER -> c

DigitChars == {"0", "1", "2", "5"}

DigitValue(c) == CASE c = "0" -> 0 [] c = "1" -> 1 [] c = "2" -> 2 [] c = "5" -> 5

\* str::strip_suffix(char): the rest of the string, when it ends with c
EndsWith(value, c) == Len(value) > 0 /\ value[Len(value)] = c

StripSuffix(value, c) == SubSeq(value, 1, Len(value) - 1)

\* the body of the loop of parse for one entry of MULTIPLIERS
StripMultiplier(acc, m) ==
    IF EndsWith(acc.value, m.suffix) \/ EndsWith(acc.value, ToAsciiLowercase(m.suffix))
    THEN [value |-> StripSuffix(acc.value, m.suffix), exp |-> acc.exp + m.exp]
    ELSE acc

\* `for (suffix, suffix_multiplier) in MULTIPLIERS`
RECURSIVE StripMultipliers(_, _)
StripMultipliers(acc, i) ==
    IF i > Len(MULTIPLIERS) THEN acc
    ELSE StripMultipliers(StripMultiplier(acc, MULTIPLIERS[i]), i + 1)

\* the digits of a string as a natural number
RECURSIVE DigitsValue(_)
DigitsValue(digits) ==
    IF digits = <<>> THEN 0
    ELSE 10 * DigitsValue(SubSeq(digits, 1, Len(digits) - 1))
         + DigitValue(digits[Len(digits)])

RECURSIVE PowerOfTen(_)
PowerOfTen(n) == IF n = 0 THEN 1 ELSE 10 * PowerOfTen(n - 1)

\* the positions of the decimal point in a string
Points(value) == {i \in 1..Len(value) : value[i] = "."}

\* str::parse::<f64> on the strings of digits and points: digits with at
\* most one point and at least one digit
IsDecimal(value) ==
    /\ \A i \in 1..Len(value) : value[i] \in DigitChars \cup {"."}
    /\ Cardinality(Points(value)) <= 1
    /\ Len(value) > Cardinality(Points(value))

DecimalValue(value) ==
    IF Points(value) = {} THEN FromInt(DigitsValue(value))
    ELSE Norm(DigitsValue(SelectSeq(value, LAMBDA c : c # ".")),
              PowerOfTen(Len(value) - (CHOOSE i \in Points(value) : TRUE)))

NoOutput == [ok |-> FALSE, value |-> Zero, exp |-> 0]

\* `Ok(value.parse::<f64>()? * multiplier)`
ParseStripped(acc) ==
    IF IsDecimal(acc.value)
    THEN [ok |-> TRUE, value |-> DecimalValue(acc.value), exp |-> acc.exp]
    ELSE NoOutput

\* number::parse
parse(value) == ParseStripped(StripMultipliers([value |-> value, exp |-> 0], 1))

MultiplierLetters == {"K", "k", "M", "m", "G", "g"}

\* the strings of at most n multiplier letters
RECURSIVE LetterStrings(_)
LetterStrings(n) ==
    IF n = 0 THEN {<<>>}
    ELSE LetterStrings(n - 1)
         \cup {Append(letters, c) : letters \in LetterStrings(n - 1), c \in MultiplierLetters}

\* what comes before the letters in the strings handed to parse
Bodies == {<<"5">>, <<"2", "5">>, <<"1", ".", "5">>, <<"0", ".", "2">>, <<".">>, <<>>}

ParseInputs == {body \o letters : body \in Bodies, letters \in LetterStrings(MaxLetters)}

InitParse ==
    /\ world = NewWorld
    /\ last = NoCall
    /\ ops = 0
    /\ \E input \in ParseInputs : run = [pc |-> "input", input |-> input, output |-> NoOutput]

\* parse is applied to the string
Parse ==
    /\ run.pc = "input"
    /\ run' = [run EXCEPT !.pc = "parsed", !.output = parse(run.input)]
    /\ UNCHANGED <<world, last, ops>>

NextParse == Parse

SpecParse == InitParse /\ [][NextParse]_vars

\* ------------------------------------------------------------------------
\* find_recipe_for on the part of a graph where several recipes yield one
\* item: oil processing, cracking, barrelling, the free recipe of water,
\* coal, which a resource and a rock yield, and uranium-235, which ore
\* processing and enrichment yield
\* ------------------------------------------------------------------------
OilRecipe(category, results) ==
    [category |-> category, ingredients |-> {}, results |-> results,
     crafting_time |-> <<5, 1>>]

ResolveRecipes ==
    [name \in {"water", "steam-condensation", "fill water barrel", "empty water barrel",
               "basic-oil-processing", "advanced-oil-processing", "coal-liquefaction",
               "heavy-oil-cracking", "light-oil-cracking",
               "coal mining", "pickaxe mine rock-huge",
               "coal chemical burnable fuel energy",
               "uranium-processing", "kovarex-enrichment-process"} |->
      CASE name = "water" ->
             [category |-> "free", ingredients |-> {},
              results |-> {Ing("water", 1, 1)}, crafting_time |-> None]
        [] name = "steam-condensation" ->
             OilRecipe("craft:chemistry", {Ing("water", 1, 1)})
        [] name = "fill water barrel" ->
             OilRecipe("craft:crafting-with-fluid", {Ing("water-barrel", 1, 1)})
        [] name = "empty water barrel" ->
             OilRecipe("craft:crafting-with-fluid",
                       {Ing("water", 50, 1), Ing("empty-barrel", 1, 1)})
        [] name = "basic-oil-processing" ->
             OilRecipe("craft:oil-processing", {Ing("petroleum-gas", 45, 1)})
        [] name = "advanced-oil-processing" ->
             OilRecipe("craft:oil-processing",
                       {Ing("heavy-oil", 25, 1), Ing("light-oil", 45, 1),
                        Ing("petroleum-gas", 55, 1)})
        [] name = "coal-liquefaction" ->
             OilRecipe("craft:oil-processing",
                       {Ing("heavy-oil", 90, 1), Ing("light-oil", 20, 1),
                        Ing("petroleum-gas", 10, 1)})
        [] name = "heavy-oil-cracking" ->
             OilRecipe("craft:chemistry", {Ing("light-oil", 30, 1)})
        [] name = "light-oil-cracking" ->
             OilRecipe("craft:chemistry", {Ing("petroleum-gas", 20, 1)})
        [] name = "coal mining" ->
             [category |-> "mining:basic-solid", ingredients |-> {},
              results |-> {Ing("coal", 1, 1)}, crafting_time |-> One]
        [] name = "pickaxe mine rock-huge" ->
             [category |-> "pickaxe mining", ingredients |-> {},
              results |-> {Ing("stone", 24, 1), Ing("coal", 24, 1)},
              crafting_time |-> <<3, 1>>]
        [] name = "coal chemical burnable fuel energy" ->
             [category |-> "burnable-fuel-energy:chemical",
              ingredients |-> {Ing("coal", 1, 1)},
              results |-> {Ing(EnergyChemical, 10, 1)}, crafting_time |-> None]
        [] name = "uranium-processing" ->
             [category |-> "craft:centrifuging", ingredients |-> {Ing("uranium-ore", 10, 1)},
              results |-> {Ing("uranium-235", 7, 1000), Ing("uranium-238", 993, 1000)},
              crafting_time |-> <<12, 1>>]
        [] name = "kovarex-enrichment-process" ->
             [category |-> "craft:centrifuging",
              ingredients |-> {Ing("uranium-235", 40, 1), Ing("uranium-238", 5, 1)},
              results |-> {Ing("uranium-235", 41, 1), Ing("uranium-238", 2, 1)},
              crafting_time |-> <<60, 1>>]]

ResolveMachine(categories) ==
    [categories |-> categories, energy_usage |-> {}, crafting_speed |-> One]

ResolveMachines ==
    [name \in {"free", "oil-refinery", "chemical-plant", "assembling-machine-2",
               "burner-mining-drill", "character mining", "centrifuge"} |->
      CASE name = "free" -> ResolveMachine({"free"})
        [] name = "oil-refinery" -> ResolveMachine({"craft:oil-processing"})
        [] name = "chemical-plant" -> ResolveMachine({"craft:chemistry"})
        [] name = "assembling-machine-2" -> ResolveMachine({"craft:crafting-with-fluid"})
        [] name = "burner-mining-drill" -> ResolveMachine({"mining:basic-solid"})
        [] name = "character mining" ->
             ResolveMachine({"mining:basic-solid", "pickaxe mining"})
        [] name = "centrifuge" -> ResolveMachine({"craft:centrifuging"})]

\* the recipes a dump may lack
OptionalRecipes == {"water", "advanced-oil-processing", "light-oil-cracking"}

\* the graph of a dump without the recipes `absent`
ResolveData(absent) ==
    [recipes |-> [r \in (DOMAIN ResolveRecipes) \ absent |-> ResolveRecipes[r]],
     machines |-> ResolveMachines,
     researches |-> [t \in {} |-> [dependencies |-> <<>>]]]

\* the items find_recipe_for is asked for
ResolveItems ==
    {"water", "petroleum-gas", "heavy-oil", "light-oil", "water-barrel", "empty-barrel",
     "crude-oil", "coal", "stone", "uranium-235", EnergyChemical}

InitResolve ==
    /\ \E absent \in SUBSET OptionalRecipes, owned \in SUBSET (DOMAIN ResolveMachines) :
         world = [NewWorld EXCEPT !.data = ResolveData(absent),
                                  !.machines = [m \in owned |-> 1]]
    /\ last = NoCall
    /\ ops = 0
    /\ run = [pc |-> "idle", item |-> "", found |-> [kind |-> "none", name |-> ""]]

\* the fuels a caller names in prefer_fuel: a fuel of the category and an
\* item that is no fuel
ResolveFuels == {"coal", "crude-oil"}

\* World::prefer_fuel(category, item)
Prefer(category, item) ==
    /\ run.pc = "idle"
    /\ category \notin DOMAIN world.preferred_fuel
    /\ world' = [world EXCEPT !.preferred_fuel = Put(@, category, item)]
    /\ UNCHANGED <<last, ops, run>>

\* find_recipe_for(world, item)
Resolve(item) ==
    /\ run.pc = "idle"
    /\ \E found \in Resolutions(world, item) :
         run' = [pc |-> "resolved", item |-> item, found |-> found]
    /\ UNCHANGED <<world, last, ops>>

NextResolve ==
    \/ \E item \in ResolveItems : Resolve(item)
    \/ \E category \in FuelCategories, item \in ResolveFuels : Prefer(category, item)

SpecResolve == InitResolve /\ [][NextResolve]_vars

\* ------------------------------------------------------------------------
\* StepPlanner::craft_recipe applied once to a fresh step, in Worlds whose
\* machine groups differ in speed and count
\* ------------------------------------------------------------------------
FireRecipes ==
    [name \in {"iron-ore mining", "iron-plate", "water"} |->
      CASE name = "iron-ore mining" ->
             [category |-> "mining:basic-solid", ingredients |-> {},
              results |-> {Ing("iron-ore", 1, 1)}, crafting_time |-> One]
        [] name = "iron-plate" ->
             [category |-> "craft:smelting", ingredients |-> {Ing("iron-ore", 1, 1)},
              results |-> {Ing("iron-plate", 1, 1)}, crafting_time |-> <<16, 5>>]
        [] name = "water" ->
             [category |-> "free", ingredients |-> {},
              results |-> {Ing("water", 1, 1)}, crafting_time |-> None]]

FireMachines ==
    [name \in {"character mining", "burner-mining-drill", "stone-furnace",
               "steel-furnace"} |->
      CASE name = "character mining" ->
             [categories |-> {"mining:basic-solid"}, energy_usage |-> {},
              crafting_speed |-> <<1, 2>>]
        [] name = "burner-mining-drill" ->
             [categories |-> {"mining:basic-solid"}, energy_usage |-> {},
              crafting_speed |-> <<1, 4>>]
        [] name = "stone-furnace" ->
             [categories |-> {"craft:smelting"}, energy_usage |-> {},
              crafting_speed |-> <<1, 1>>]
        [] name = "steel-furnace" ->
             [categories |-> {"craft:smelting"}, energy_usage |-> {},
              crafting_speed |-> <<2, 1>>]]

FireData ==
    [recipes |-> FireRecipes, machines |-> FireMachines,
     researches |-> [t \in {} |-> [dependencies |-> <<>>]]]

\* the numbers of firings asked for
FireCrafts == {One, FromInt(MaxAmount), <<3, 2>>}

InitFire ==
    /\ \E owned \in SUBSET (DOMAIN FireMachines) :
         \E counts \in [owned -> 1..MaxCount] :
             world = [NewWorld EXCEPT !.data = FireData, !.machines = counts]
    /\ last = NoCall
    /\ ops = 0
    /\ run = [pc |-> "idle", recipe |-> "", crafts |-> Zero,
              ingredients |-> NewExecutedStep(world), step |-> NewExecutedStep(world)]

\* StepPlanner::new(world).craft_recipe(recipe, crafts); the step as the
\* ingredient loop leaves it is kept beside the step as the call leaves it
Fire(recipe, crafts) ==
    /\ run.pc = "idle"
    /\ run' = [pc |-> "fired", recipe |-> recipe, crafts |-> crafts,
               ingredients |->
                   CraftIngredients(world,
                                    [NewExecutedStep(world) EXCEPT !.crafts[recipe] = crafts],
                                    world.data.recipes[recipe].ingredients, crafts),
               step |-> craft_recipe(world, NewExecutedStep(world), recipe, crafts)]
    /\ UNCHANGED <<world, last, ops>>

NextFire == \E recipe \in DOMAIN FireRecipes, crafts \in FireCrafts : Fire(recipe, crafts)

SpecFire == InitFire /\ [][NextFire]_vars

\* ------------------------------------------------------------------------
\* Planner::think on a graph where a burner drill mines ore beside the
\* character and is the only machine that fells the wood it burns
\* ------------------------------------------------------------------------
ThinkRecipes ==
    [name \in {"iron-ore mining", "wood mining", "wood chemical burnable fuel energy",
               "burner-mining-drill"} |->
      CASE name = "iron-ore mining" ->
             [category |-> "mining:basic-solid", ingredients |-> {},
              results |-> {Ing("iron-ore", 1, 1)}, crafting_time |-> One]
        [] name = "wood mining" ->
             [category |-> "mining:wood", ingredients |-> {},
              results |-> {Ing("wood", 1, 1)}, crafting_time |-> <<5, 1>>]
        [] name = "wood chemical burnable fuel energy" ->
             [category |-> "burnable-fuel-energy:chemical",
              ingredients |-> {Ing("wood", 1, 1)},
              results |-> {Ing(EnergyChemical, 1, 5000)}, crafting_time |-> None]
        [] name = "burner-mining-drill" ->
             [category |-> "craft:crafting", ingredients |-> {},
              results |-> {Ing("burner-mining-drill", 1, 1)},
              crafting_time |-> <<1, 4>>]]

ThinkMachines ==
    [name \in {"character mining", "character crafting", "burner-mining-drill"} |->
      CASE name = "character mining" ->
             [categories |-> {"mining:basic-solid"}, energy_usage |-> {},
              crafting_speed |-> One]
        [] name = "character crafting" ->
             [categories |-> {"craft:crafting"}, energy_usage |-> {},
              crafting_speed |-> One]
        [] name = "burner-mining-drill" ->
             [categories |-> {"mining:basic-solid", "mining:wood"},
              energy_usage |-> {Ing(EnergyChemical, 1, 100000)},
              crafting_speed |-> <<1, 2>>]]

ThinkData ==
    [recipes |-> ThinkRecipes, machines |-> ThinkMachines,
     researches |-> [t \in {} |-> [dependencies |-> <<>>]]]

\* the Worlds think() is called on: the characters, and drills fed with wood
ThinkWorld(drills) ==
    [NewWorld EXCEPT !.data = ThinkData,
                     !.preferred_fuel = Put(EmptyMap, "chemical", "wood"),
                     !.machines = [m \in DOMAIN ThinkMachines |->
                                     IF m = "burner-mining-drill" THEN drills ELSE 1]]

\* the bundles a caller adds with add_tasks
ThinkTasks ==
    {CraftTask("iron-ore", 1), CraftTask("iron-ore", 2), CraftTask("iron-ore", 4),
     CraftTask("wood", 1), CraftRecipeTask("iron-ore mining", 3),
     BuildTask("burner-mining-drill", 1)}

\* the lists of bundles: one add_tasks or two
ThinkChoices ==
    {<<a>> : a \in ThinkTasks} \cup {<<a, b>> : a \in ThinkTasks, b \in ThinkTasks}

InitThink ==
    /\ \E drills \in 1..MaxCount : world = ThinkWorld(drills)
    /\ last = NoCall
    /\ ops = 0
    /\ run = [pc |-> "idle", bundles |-> <<>>, before |-> world,
              plan |-> [status |-> "ok", error |-> "", splits |-> <<>>]]

\* world.planner().add_tasks(..)...think()
Think(bundles) ==
    /\ run.pc = "idle"
    /\ \E order \in MachineOrders(world) :
         run' = [pc |-> "thought", bundles |-> bundles, before |-> world,
                 plan |-> think(world, bundles, order)]
    /\ UNCHANGED <<world, last, ops>>

\* Plan::execute(&mut world) on the Plan think() returned
ExecuteThought ==
    /\ run.pc = "thought"
    /\ run.plan.status = "ok"
    /\ \E done \in {PlanExecute(world, run.plan.splits)} :
         /\ done.status = "ok"
         /\ world' = done.world
    /\ run' = [run EXCEPT !.pc = "executed"]
    /\ UNCHANGED <<last, ops>>

NextThink ==
    \/ \E bundles \in ThinkChoices : Think(bundles)
    \/ ExecuteThought

SpecThink == InitThink /\ [][NextThink]_vars

\* ------------------------------------------------------------------------
\* Properties
\* ------------------------------------------------------------------------
\* the calls that go through think() with bundles of the caller
ThinkOps == {"plan", "craft", "build"}

\* the steps the last call executed, in order
StepIndexes == 1..Len(last.steps)

\* C1: world.time after executing the Plan returned by think() is less than
\* or equal to world.time after executing the caller's bundles verbatim, in
\* order, from the same starting World.
ThinkNeverSlower ==
    (last.op \in ThinkOps /\ last.status = "ok") =>
        \E base \in {Simulate(last.before, last.bundles)} :
            /\ base.status = "ok"
            /\ NumLe(world.time, base.world.time)

\* think() inserted a bundle and the Plan is strictly faster than the
\* caller's bundles
ThinkImproved ==
    /\ last.op \in ThinkOps
    /\ last.status = "ok"
    /\ Len(last.plan) > Len(last.bundles)
    /\ NumLt(world.time, Simulate(last.before, last.bundles).world.time)

\* the recipes fired by a step
Fired(step) == {r \in RecipeNames : step.crafts[r] # Zero}

\* C2 (as the code has it): every recipe with a crafting time that appears
\* in the crafts of an executed step has its category covered by a machine
\* of the World the step was planned against.
TimedRecipesCovered ==
    \A i \in StepIndexes :
        \A r \in Fired(last.steps[i].step) :
            Recipes[r].crafting_time # None =>
                \E m \in DOMAIN last.steps[i].before.machines :
                    Recipes[r].category \in Machines[m].categories

\* a step fired a timed recipe reached through ingredient expansion and a
\* timed recipe reached through the energy-loop closure
TimedRecipesFired ==
    \E i \in StepIndexes :
        /\ last.steps[i].step.crafts["coal mining"] # Zero
        /\ last.steps[i].step.crafts["iron-ore mining"] # Zero
        /\ last.steps[i].step.crafts["burner-mining-drill"] # Zero

\* C2 as stated: every recipe in the crafts of an executed step, burnable
\* fuel energy recipes and instantaneous recipes included, has its category
\* covered by a machine of the World the step was planned against.
AllRecipesCovered ==
    \A i \in StepIndexes :
        \A r \in Fired(last.steps[i].step) :
            \E m \in DOMAIN last.steps[i].before.machines :
                Recipes[r].category \in Machines[m].categories

\* C3: research(name) on a World that has name in researches leaves
\* researches, machines, preferred_fuel and time as they were, and executes
\* no step.
ResearchIdempotent ==
    (last.op = "research" /\ last.arg \in last.before.researches) =>
        /\ last.status = "ok"
        /\ world.researches = last.before.researches
        /\ world.machines = last.before.machines
        /\ world.preferred_fuel = last.before.preferred_fuel
        /\ world.time = last.before.time
        /\ last.steps = <<>>

\* a tech was researched a second time
ResearchedAgain ==
    /\ last.op = "research"
    /\ last.arg \in last.before.researches
    /\ last.before.time # Zero

DependenciesOf(t) ==
    {Researches[t].dependencies[i] : i \in 1..Len(Researches[t].dependencies)}

\* techs with their transitive dependencies
RECURSIVE DependencyClosure(_)
DependencyClosure(techs) ==
    LET more == techs \cup UNION {DependenciesOf(t) : t \in techs}
    IN  IF more = techs THEN techs ELSE DependencyClosure(more)

RECURSIVE SumCrafts(_, _)
\* how often the steps of the last call fired a recipe
SumCrafts(recipe, i) ==
    IF i > Len(last.steps) THEN Zero
    ELSE NumAdd(last.steps[i].step.crafts[recipe], SumCrafts(recipe, i + 1))

\* C4: after research(T) completes, researches holds T and its transitive
\* dependencies; the recipe of each tech that was not researched before is
\* fired exactly once and the recipe of no other tech is fired; a tech is
\* inserted only after its dependencies; researches is closed under
\* dependencies in every state.
ResearchClosure ==
    /\ \A t \in world.researches : DependenciesOf(t) \subseteq world.researches
    /\ (last.op = "research" /\ last.status = "ok") =>
          /\ DependencyClosure({last.arg}) \subseteq world.researches
          /\ world.researches =
                last.before.researches \cup (DependencyClosure({last.arg}))
          /\ \A t \in ResearchNames :
                ResearchRecipe(t) \in RecipeNames =>
                    SumCrafts(ResearchRecipe(t), 1) =
                        (IF t \in world.researches \ last.before.researches
                         THEN One ELSE Zero)
          /\ {last.inserted[i] : i \in 1..Len(last.inserted)} =
                world.researches \ last.before.researches
          /\ \A i, j \in 1..Len(last.inserted) :
                i # j => last.inserted[i] # last.inserted[j]
          /\ \A i \in 1..Len(last.inserted) :
                DependenciesOf(last.inserted[i]) \subseteq
                    last.before.researches \cup {last.inserted[j] : j \in 1..(i - 1)}

\* a tech that two of its dependencies share a dependency with was
\* researched from a World with no research
DiamondResearched ==
    /\ last.op = "research"
    /\ last.arg = "electronics"
    /\ last.status = "ok"
    /\ Len(last.inserted) = 4

\* every recipe that yields the item has a category no owned machine holds
NoProducerCovered(w, item) ==
    \A r \in RecipeNames :
        item \in Keys(Recipes[r].results) =>
            ~\E m \in DOMAIN w.machines : Recipes[r].category \in Machines[m].categories

\* C5 (as the code has it): World::craft of an item other than a burner
\* energy, all of whose producing recipes have an uncovered category, fails
\* with the resolution error and leaves the World as it was.
UncoveredCraftFails ==
    (/\ last.op = "craft"
     /\ last.arg \notin BurnerEnergyItems
     /\ NoProducerCovered(last.before, last.arg)) =>
        /\ last.status = "panic"
        /\ last.error = "Could not find recipe"
        /\ world = last.before

\* an item with a producing recipe, none of them covered, was asked for
UncoveredCraftTried ==
    /\ last.op = "craft"
    /\ last.arg \notin BurnerEnergyItems
    /\ NoProducerCovered(last.before, last.arg)
    /\ \E r \in RecipeNames : last.arg \in Keys(Recipes[r].results)
    /\ last.status = "panic"

\* C5 as stated: World::craft of any item all of whose producing recipes
\* have an uncovered category fails with the resolution error and leaves the
\* World as it was.
AnyUncoveredCraftFails ==
    (/\ last.op = "craft"
     /\ NoProducerCovered(last.before, last.arg)) =>
        /\ last.status = "panic"
        /\ last.error = "Could not find recipe"
        /\ world = last.before

RECURSIVE SumIngredient(_, _, _)
\* crafts[R'] * R'.ingredients[g] summed over the recipes R' of the set
SumIngredient(step, g, recipes) ==
    IF recipes = {} THEN Zero
    ELSE LET r == CHOOSE x \in recipes : TRUE
         IN  NumAdd(IF g \in Keys(Recipes[r].ingredients)
                    THEN NumMul(step.crafts[r], Get(Recipes[r].ingredients, g))
                    ELSE Zero,
                    SumIngredient(step, g, recipes \ {r}))

\* the output of item by the recipe the World resolves it to
ResolvedOutput(rec, item) ==
    LET found == find_recipe_for(rec.before, item)
    IN  IF found.kind = "some"
        THEN NumMul(rec.step.crafts[found.name], Get(Recipes[found.name].results, item))
        ELSE Zero

\* C6: in the step of a bundle, a craft task of item i at amount a resolved
\* to recipe R has crafts[R] * R.results[i] >= a, and for every ingredient g
\* of the fired recipes the recipe resolved for g yields at least the sum of
\* crafts[R'] * R'.ingredients[g] over the fired recipes R'.
DemandCovered ==
    \A k \in StepIndexes :
        LET rec == last.steps[k]
        IN  /\ \A i \in DOMAIN rec.tasks.craft :
                  NumLe(rec.tasks.craft[i], ResolvedOutput(rec, i))
            /\ \A g \in Items :
                  NumLe(SumIngredient(rec.step, g, Fired(rec.step)), ResolvedOutput(rec, g))

\* a step fired a recipe with an ingredient more than once and had a craft
\* task
ScaledDemand ==
    \E k \in StepIndexes :
        /\ NumLt(One, last.steps[k].step.crafts["iron-plate"])
        /\ DOMAIN last.steps[k].tasks.craft # {}

\* the machines a step keeps busy
Busy(rec) == {m \in MachineNames : rec.step.single_machine_time[m] # Zero}

\* per_machine_time[m] / count_m with the count before the step
WallClock(rec, m) ==
    NumDiv(rec.step.single_machine_time[m], FromInt(rec.before.machines[m]))

\* C7: a step advances world.time by the maximum over the machines m of
\* per_machine_time[m] / count_m, count_m taken before the builds of the
\* step are applied, and by 0 when no machine is occupied.
StepAdvancesTime ==
    \A k \in StepIndexes :
        LET rec == last.steps[k]
        IN  IF Busy(rec) = {}
            THEN rec.world.time = rec.before.time
            ELSE /\ \E m \in Busy(rec) :
                        rec.world.time = NumAdd(rec.before.time, WallClock(rec, m))
                 /\ \A m \in Busy(rec) :
                        NumLe(NumAdd(rec.before.time, WallClock(rec, m)), rec.world.time)

\* a step built more copies of the machine that was busy the longest
BusiestMachineBuilt ==
    \E k \in StepIndexes :
        \E m \in Busy(last.steps[k]) :
            /\ last.steps[k].step.builds[m] > 0
            /\ last.steps[k].world.time =
                   NumAdd(last.steps[k].before.time, WallClock(last.steps[k], m))

\* the owned count, 0 for a machine the World does not own
Count(w, m) == IF m \in DOMAIN w.machines THEN w.machines[m] ELSE 0

\* C8: a step of a bundle with build(m, k) fires the recipe resolved for m
\* to yield k units and raises the owned count of m by exactly k; the owned
\* count of every machine the bundle does not build is unchanged.
BuildRaisesCount ==
    \A i \in StepIndexes :
        LET rec == last.steps[i]
        IN  \A m \in MachineNames :
                IF m \in DOMAIN rec.tasks.build
                THEN /\ Count(rec.world, m) = Count(rec.before, m) + rec.tasks.build[m]
                     /\ NumLe(FromInt(rec.tasks.build[m]), ResolvedOutput(rec, m))
                ELSE /\ Count(rec.world, m) = Count(rec.before, m)
                     /\ (m \in DOMAIN rec.world.machines) = (m \in DOMAIN rec.before.machines)

\* a step built several copies of a machine the World owned while another
\* machine was owned too
SeveralBuilt ==
    \E i \in StepIndexes :
        \E m \in DOMAIN last.steps[i].tasks.build :
            /\ last.steps[i].tasks.build[m] > 1
            /\ Count(last.steps[i].before, m) > 0
            /\ Count(last.steps[i].world, m) = Count(last.steps[i].before, m)
                                                  + last.steps[i].tasks.build[m]

\* the energy demands of the pass just made: usage * drained time for every
\* energy_usage entry of every machine that had pending time
PassDemands ==
    UNION {{[machine |-> m, item |-> u.item,
             amount |-> NumMul(u.amount, run.prev.executed.single_machine_time[m])] :
               u \in Machines[m].energy_usage} :
           m \in {x \in MachineNames : run.prev.executed.single_machine_time[x] # Zero}}

RECURSIVE SumAmounts(_)
SumAmounts(demands) ==
    IF demands = {} THEN Zero
    ELSE LET d == CHOOSE x \in demands : TRUE
         IN  NumAdd(d.amount, SumAmounts(demands \ {d}))

\* a pass has been made and the planner has not panicked in it
PassMade ==
    /\ run.pc \in {"loop", "returned"}
    /\ run.st.passes > 0
    /\ run.st.executed.status = "ok"

\* by how much the pass raised the output of the energy item
EnergyCrafted(e) ==
    LET found == find_recipe_for(world, e)
    IN  [known |-> found.kind = "some",
         before |-> IF found.kind = "some"
                    THEN NumMul(run.prev.executed.crafts[found.name],
                                Get(Recipes[found.name].results, e))
                    ELSE Zero,
         after |-> IF found.kind = "some"
                   THEN NumMul(run.st.executed.crafts[found.name],
                               Get(Recipes[found.name].results, e))
                   ELSE Zero]

\* the pass crafted, for every energy item, the demands of the set and no more
PassCrafted(fed) ==
    /\ \A e \in {d.item : d \in PassDemands} :
          EnergyCrafted(e).known =>
              EnergyCrafted(e).after =
                  NumAdd(EnergyCrafted(e).before,
                         SumAmounts({d \in fed : d.item = e}))
    /\ (fed = {}) => run.st.executed.crafts = run.prev.executed.crafts
    /\ run.st.done = (fed = {})

\* C9 (as the code has it): a pass of finalize feeds an energy demand
\* usage * drained_time back as a craft exactly when it is at least 1e-5;
\* when finalize returns, every demand that was not fed back is below 1e-5,
\* hence below 1 unit.
FedBackFromThreshold ==
    PassMade =>
        /\ PassCrafted({d \in PassDemands : NumLe(EnergyThreshold, d.amount)})
        /\ run.pc = "returned" =>
              \A d \in PassDemands :
                  NumLt(d.amount, EnergyThreshold) /\ NumLt(d.amount, One)

\* finalize returned after it fed back a demand of at most 1 unit in one
\* pass and dropped a demand above 0 in the last
SmallDemandFedBack ==
    /\ run.pc = "returned"
    /\ run.st.passes > 1
    /\ \E d \in PassDemands : NumLt(Zero, d.amount) /\ NumLt(d.amount, EnergyThreshold)
    /\ run.prev.executed.crafts["coal chemical burnable fuel energy"] # Zero
    /\ NumLe(NumMul(run.prev.executed.crafts["coal chemical burnable fuel energy"],
                    FromInt(10)), One)

\* C9 as stated: a pass of finalize feeds an energy demand back as a craft
\* exactly when it exceeds 1, and demands of at most 1 unit are dropped.
FedBackAboveOne ==
    PassMade => PassCrafted({d \in PassDemands : NumLt(One, d.amount)})

\* C10: the closure loop of finalize terminates: a pass that feeds demands
\* back never leaves the planner with the pending machine times it started
\* from, since such a pass is repeated for ever.
NoPassRepeats ==
    ~(/\ run.pc = "loop"
      /\ run.st.passes > 0
      /\ ~run.st.done
      /\ run.st.executed.status = "ok"
      /\ run.st.executed.single_machine_time = run.prev.executed.single_machine_time)

\* C10 as a liveness property: a loop that has been entered returns (or
\* unwinds with a panic) after finitely many passes.
FinalizeTerminates ==
    (run.pc = "loop") ~> (run.pc \in {"returned", "panicked"})

\* C11: for one bundle and a fixed World the ExecutedStep that finalize
\* returns (crafts, builds, per-machine time) is the same whatever the order
\* in which the entries of the bundle's maps are expanded and whatever the
\* order in which the demands of a closure pass are crafted: every order
\* returns the step Tasks::execute plans, and an order panics only when
\* Tasks::execute does
OrderIndependent ==
    /\ run.pc = "returned" => run.st.executed = Planned(world, run.tasks)
    /\ run.pc = "panicked" => Planned(world, run.tasks).status = "panic"

\* a bundle with two entries in one map has been expanded, its closure
\* made passes that crafted energy, and finalize returned
OrderedBundleReturned ==
    /\ run.pc = "returned"
    /\ Cardinality(DOMAIN run.tasks.craft) >= 2
    /\ run.st.passes >= 2
    /\ run.st.executed.crafts["iron-plate"] # Zero

\* the machines a step built
BuiltBy(rec) == {m \in MachineNames : rec.step.builds[m] > 0}

\* the machines of the World that cover the category of a recipe with a
\* crafting time the step fired
Sharing(rec) ==
    {m \in DOMAIN rec.before.machines :
        \E r \in Fired(rec.step) :
            /\ rec.before.data.recipes[r].crafting_time # None
            /\ rec.before.data.recipes[r].crafting_time # Zero
            /\ rec.before.data.recipes[r].category \in rec.before.data.machines[m].categories}

\* C12: the machines bundle k of a Plan builds take no part in bundle k's
\* own work sharing or wall-clock division: bundle k is planned against the
\* World from before its builds, only machines owned before it are given
\* work, and its time is the largest per-machine time divided by the count
\* from before its builds. They are counted from bundle k+1 on: bundle k+1
\* starts from the World bundle k left, with the built machines added to the
\* counts, and every machine of that World that covers a fired recipe is
\* given work; the World the last bundle leaves is the World of the caller.
BuiltMachinesCountLater ==
    \A k \in StepIndexes :
        LET rec == last.steps[k]
        IN  rec.status = "ok" =>
              /\ rec.step = Planned(rec.before, rec.tasks)
              /\ Busy(rec) = Sharing(rec)
              /\ rec.world.time = NumAdd(rec.before.time, total_time(rec.step, rec.before))
              /\ \A m \in MachineNames :
                    Count(rec.world, m) = Count(rec.before, m) + rec.step.builds[m]
              /\ k < Len(last.steps) =>
                    last.steps[k + 1].before.machines = rec.world.machines
              /\ (k = Len(last.steps) /\ last.status = "ok") =>
                    world.machines = rec.world.machines

\* a bundle built a machine the World did not own, without giving it work,
\* and the next bundle gave work to that machine
NewMachineWorkedLater ==
    \E k \in StepIndexes :
        /\ k < Len(last.steps)
        /\ "lab" \in BuiltBy(last.steps[k])
        /\ "lab" \notin DOMAIN last.steps[k].before.machines
        /\ "lab" \notin Busy(last.steps[k])
        /\ last.steps[k + 1].status = "ok"
        /\ "lab" \in Busy(last.steps[k + 1])

\* the recipes with a crafting time a step fired
TimedFired(rec) ==
    {r \in Fired(rec.step) : rec.before.data.recipes[r].crafting_time # None}

\* the machines of the World the step was planned against that cover r
Covering(rec, r) ==
    {m \in DOMAIN rec.before.machines :
        rec.before.data.recipes[r].category \in rec.before.data.machines[m].categories}

RECURSIVE SpeedOf(_, _)
SpeedOf(rec, ms) ==
    IF ms = {} THEN Zero
    ELSE LET m == CHOOSE x \in ms : TRUE
         IN  NumAdd(NumMul(rec.before.data.machines[m].crafting_speed,
                           FromInt(rec.before.machines[m])),
                    SpeedOf(rec, ms \ {m}))

\* the time the firings of r take on one machine of the group m: the group
\* makes count * speed / (total speed) of the crafts, each at time / speed
TimeOn(rec, m, r) ==
    IF m \notin Covering(rec, r) THEN Zero
    ELSE NumDiv(NumMul(NumMul(rec.step.crafts[r], FromInt(rec.before.machines[m])),
                       rec.before.data.recipes[r].crafting_time),
                SpeedOf(rec, Covering(rec, r)))

RECURSIVE TimedWork(_, _, _)
TimedWork(rec, m, rs) ==
    IF rs = {} THEN Zero
    ELSE LET r == CHOOSE x \in rs : TRUE
         IN  NumAdd(TimeOn(rec, m, r), TimedWork(rec, m, rs \ {r}))

\* C13: firing a recipe without a crafting time adds nothing to the
\* per-machine time of any machine: the time of every machine in an executed
\* step is the sum of the times of the fired recipes that have a crafting
\* time; a bundle that fires only recipes without a crafting time occupies
\* no machine and leaves world.time as it was.
InstantRecipesTakeNoTime ==
    \A k \in StepIndexes :
        LET rec == last.steps[k]
        IN  rec.status = "ok" =>
              /\ \A m \in MachineNames :
                    rec.step.single_machine_time[m] = TimedWork(rec, m, TimedFired(rec))
              /\ TimedFired(rec) = {} =>
                    (Busy(rec) = {} /\ rec.world.time = rec.before.time)

\* a bundle fired the free recipe of water and nothing else, in a World
\* that owns the machine covering it
WaterOnlyFired ==
    \E k \in StepIndexes :
        /\ last.steps[k].status = "ok"
        /\ Fired(last.steps[k].step) = {"water"}
        /\ "free" \in DOMAIN last.steps[k].before.machines

\* the bundle research hands to the planner for a tech
ResearchBundle(t) == CraftRecipeTask(ResearchRecipe(t), 1)

\* the steps of the last call whose bundle is the research bundle of t
ResearchSteps(t) == {k \in StepIndexes : last.steps[k].tasks = ResearchBundle(t)}

\* the bundles think() inserts: one build entry of an owned machine
InsertedBuild(rec) ==
    \E m \in DOMAIN rec.before.machines, a \in 1..4 : rec.tasks = BuildTask(m, a)

RECURSIVE SumBuilds(_, _)
SumBuilds(m, k) ==
    IF k = 0 THEN 0 ELSE last.steps[k].step.builds[m] + SumBuilds(m, k - 1)

ThinkTerminates ==
    \A bundles \in PlanChoices :
        \A order \in MachineOrders(world) :
            think(world, bundles, order).status \in {"ok", "panic"}

\* C16: for every technology whose unit cost is formula-defined the graph
\* holds neither a Research record nor a research recipe; hence every
\* Research record of the graph names a recipe that is in graph.recipes.
FormulaTechnologiesAbsent ==
    /\ run.technology.unit.count.kind = "formula" =>
          /\ run.technology.name \notin DOMAIN world.data.researches
          /\ ResearchRecipe(run.technology.name) \notin DOMAIN world.data.recipes
    /\ \A t \in DOMAIN world.data.researches :
          world.data.researches[t].recipe \in DOMAIN world.data.recipes

\* the count the claim scales a technology's unit by
ScaledCount(technology, multiplier) ==
    IF technology.ignore_tech_cost_multiplier THEN technology.unit.count.count
    ELSE technology.unit.count.count * multiplier

\* C17: for every technology with a constant count the synthesized
\* "research <name>" recipe has empty results, ingredients equal to each unit
\* ingredient amount times the scaled count, and crafting_time equal to
\* unit.time times the scaled count, the scaled count being count times the
\* science multiplier unless the technology sets ignore_tech_cost_multiplier.
ResearchRecipeScaled ==
    run.technology.unit.count.kind = "const" =>
        /\ ResearchRecipe(run.technology.name) \in DOMAIN world.data.recipes
        /\ LET recipe == world.data.recipes[ResearchRecipe(run.technology.name)]
               scaled == ScaledCount(run.technology, run.multiplier)
           IN  /\ recipe.results = {}
               /\ recipe.ingredients =
                     {[item |-> g.item, amount |-> NumMul(g.amount, FromInt(scaled))] :
                         g \in run.technology.unit.ingredients}
               /\ recipe.crafting_time = FromInt(run.technology.unit.time * scaled)

\* the number of multiplier letters a string ends in
RECURSIVE TrailingLetters(_)
TrailingLetters(value) ==
    IF Len(value) = 0 \/ value[Len(value)] \notin MultiplierLetters THEN 0
    ELSE 1 + TrailingLetters(SubSeq(value, 1, Len(value) - 1))

\* the power of ten of an SI multiplier letter
LetterExp(c) ==
    CASE c \in {"K", "k"} -> 3 [] c \in {"M", "m"} -> 6 [] c \in {"G", "g"} -> 9

\* C18: number::parse accepts a decimal followed by at most one SI
\* multiplier letter (K/k, M/m or G/g) and returns the decimal times 10^3,
\* 10^6 or 10^9 respectively (times 1 with no letter); a string that ends
\* in two or more multiplier letters is rejected with an error.
ParseOneMultiplier ==
    run.pc = "parsed" =>
        LET n == TrailingLetters(run.input)
            body == SubSeq(run.input, 1, Len(run.input) - n)
        IN  IF n >= 2 \/ ~IsDecimal(body) THEN ~run.output.ok
            ELSE /\ run.output.ok
                 /\ run.output.value = DecimalValue(body)
                 /\ run.output.exp = IF n = 0 THEN 0 ELSE LetterExp(run.input[Len(run.input)])

\* the recipes of the graph whose name contains "barrel"
BarrelRecipes == {"fill water barrel", "empty water barrel"}

\* the four conditions of the claim on a recipe R for the item asked for
Resolvable(R) ==
    /\ run.item \in Keys(world.data.recipes[R].results)
    /\ \E m \in DOMAIN world.machines :
          world.data.recipes[R].category \in world.data.machines[m].categories
    /\ R \notin BarrelRecipes
    /\ R # "coal-liquefaction"

ResolvableRecipes == {R \in DOMAIN world.data.recipes : Resolvable(R)}

\* find_recipe_for has answered for an item that is no burner energy
ResolvedItem == run.pc = "resolved" /\ run.item \notin BurnerEnergyItems

\* C19: for a non-burner item find_recipe_for returns only a recipe R such
\* that the item is a key of R.results, R.category is in the category set of
\* a machine the World owns, R.name does not contain "barrel" and R.name is
\* not "coal-liquefaction"; it returns no recipe exactly when no recipe
\* satisfies all four conditions.
ResolutionFiltered ==
    ResolvedItem =>
        /\ run.found.kind \in {"some", "none"}
        /\ run.found.kind = "some" => run.found.name \in ResolvableRecipes
        /\ run.found.kind = "none" <=> ResolvableRecipes = {}

\* a recipe was returned for water in a graph without the free recipe of
\* water, although a barrelling recipe covered by an owned machine yields
\* water too
FilteredRecipeYieldsItem ==
    /\ ResolvedItem
    /\ run.found.kind = "some"
    /\ \E R \in (DOMAIN world.data.recipes) \ ResolvableRecipes :
          /\ run.item \in Keys(world.data.recipes[R].results)
          /\ R \in BarrelRecipes
          /\ "assembling-machine-2" \in DOMAIN world.machines
    /\ "water" \notin DOMAIN world.data.recipes

\* C20: among the recipes that survive the filters find_recipe_for returns
\* a recipe of category Free whenever a survivor has category Free;
\* otherwise it returns "advanced-oil-processing" whenever that recipe is a
\* survivor; only otherwise is the choice among the survivors arbitrary.
ResolutionPrefersFree ==
    (ResolvedItem /\ ResolvableRecipes # {}) =>
        IF \E R \in ResolvableRecipes : world.data.recipes[R].category = "free"
        THEN world.data.recipes[run.found.name].category = "free"
        ELSE IF "advanced-oil-processing" \in ResolvableRecipes
        THEN run.found.name = "advanced-oil-processing"
        ELSE run.found.name \in ResolvableRecipes

\* the free recipe of water was returned although a recipe of another
\* category, covered by an owned machine, yields water too
FreeRecipePreferred ==
    /\ ResolvedItem
    /\ run.found.name = "water"
    /\ "steam-condensation" \in ResolvableRecipes

\* ------------------------------------------------------------------------
\* C21: resolving coal never answers with a recipe whose name contains
\* "pickaxe", whatever machines the World owns
\* ------------------------------------------------------------------------
ContainsPickaxe(name) == name \in {"pickaxe mine rock-huge"}

CoalNeverPickaxed ==
    (run.pc = "resolved" /\ run.item = "coal" /\ run.found.kind = "some")
        => ~ContainsPickaxe(run.found.name)

\* ------------------------------------------------------------------------
\* C22: for burner energy of a fuel category, find_recipe_for answers the
\* burnable-fuel-energy recipe name of the fuel set with prefer_fuel for that
\* category, whatever machines are owned and whatever other recipes exist;
\* without a preferred fuel the call fails; the World is unchanged either way
\* ------------------------------------------------------------------------
BurnerAnswer(w, item, found) ==
    IF FuelCategoryOf(item) \in DOMAIN w.preferred_fuel
    THEN /\ found.kind = "some"
         /\ found.name = w.preferred_fuel[FuelCategoryOf(item)] \o " "
                            \o FuelCategoryOf(item) \o " burnable fuel energy"
    ELSE found.kind = "panic"

BurnerResolution ==
    [][(run.pc = "idle" /\ run'.pc = "resolved" /\ run'.item \in BurnerEnergyItems)
         => (world' = world /\ BurnerAnswer(world, run'.item, run'.found))]_vars

\* burner energy was resolved to the preferred fuel in a World that owns no
\* machine at all
BurnerResolvedUncovered ==
    /\ run.pc = "resolved"
    /\ run.item = EnergyChemical
    /\ run.found.kind = "some"
    /\ DOMAIN world.machines = {}
    /\ world.preferred_fuel["chemical"] = "coal"

\* burner energy was asked for without a preferred fuel
BurnerResolutionFailed ==
    /\ run.pc = "resolved"
    /\ run.item = EnergyChemical
    /\ run.found.kind = "panic"

\* ------------------------------------------------------------------------
\* C29: a name find_recipe_for returns is a key of data.recipes and that
\* recipe's results contain the item, for every item, burner energy after
\* any prefer_fuel included
\* ------------------------------------------------------------------------
ResolvedRecipeYieldsItem ==
    (run.pc = "resolved" /\ run.found.kind = "some")
        => /\ run.found.name \in DOMAIN world.data.recipes
           /\ run.item \in Keys(world.data.recipes[run.found.name].results)

\* ------------------------------------------------------------------------
\* C23: C firings of a timed recipe are shared among the owned machine
\* groups covering its category in proportion to speed x count; the shares
\* sum to C; the time of group m grows by share / speed x crafting_time; and
\* every covering group gets the same wall-clock time C x crafting_time /
\* total_speed
\* ------------------------------------------------------------------------
CoveringGroups(w, recipe) ==
    {m \in DOMAIN w.machines :
        w.data.recipes[recipe].category \in w.data.machines[m].categories}

RECURSIVE TotalSpeed(_, _)
TotalSpeed(w, ms) ==
    IF ms = {} THEN Zero
    ELSE LET m == CHOOSE x \in ms : TRUE
         IN  NumAdd(NumMul(FromInt(w.machines[m]), w.data.machines[m].crafting_speed),
                    TotalSpeed(w, ms \ {m}))

ShareOf(w, recipe, crafts, m) ==
    NumDiv(NumMul(NumMul(crafts, w.data.machines[m].crafting_speed),
                  FromInt(w.machines[m])),
           TotalSpeed(w, CoveringGroups(w, recipe)))

RECURSIVE SumShares(_, _, _, _)
SumShares(w, recipe, crafts, ms) ==
    IF ms = {} THEN Zero
    ELSE LET m == CHOOSE x \in ms : TRUE
         IN  NumAdd(ShareOf(w, recipe, crafts, m), SumShares(w, recipe, crafts, ms \ {m}))

\* what the firing added to single_machine_time[m]
Grown(m) ==
    CHOOSE d \in {NumAdd(run.step.single_machine_time[m], <<-x[1], x[2]>>) :
                     x \in {run.ingredients.single_machine_time[m]}} : TRUE

TimedFiring ==
    /\ run.pc = "fired"
    /\ run.step.status = "ok"
    /\ world.data.recipes[run.recipe].crafting_time # None

WorkShared ==
    TimedFiring =>
        /\ SumShares(world, run.recipe, run.crafts, CoveringGroups(world, run.recipe))
             = run.crafts
        /\ \A m \in CoveringGroups(world, run.recipe) :
             /\ Grown(m) = NumMul(NumDiv(ShareOf(world, run.recipe, run.crafts, m),
                                         world.data.machines[m].crafting_speed),
                                  world.data.recipes[run.recipe].crafting_time)
             /\ NumDiv(Grown(m), FromInt(world.machines[m]))
                  = NumDiv(NumMul(run.crafts, world.data.recipes[run.recipe].crafting_time),
                           TotalSpeed(world, CoveringGroups(world, run.recipe)))
        /\ \A m \in (DOMAIN world.data.machines) \ CoveringGroups(world, run.recipe) :
             Grown(m) = Zero

\* a timed recipe was fired in a World with two covering groups of different
\* speed and different count
SharedUnevenly ==
    /\ TimedFiring
    /\ run.recipe = "iron-plate"
    /\ "stone-furnace" \in DOMAIN world.machines
    /\ "steel-furnace" \in DOMAIN world.machines
    /\ world.machines["stone-furnace"] # world.machines["steel-furnace"]
    /\ run.crafts = <<3, 2>>

\* ------------------------------------------------------------------------
\* C24: a bundle that fires a timed recipe while no owned machine covers its
\* category (total speed 0) fails: no step is produced and the World stays
\* as it was
\* ------------------------------------------------------------------------
\* the recipes the first bundle names in craft_recipe that have a crafting
\* time and no covering machine in the World the call started from
UncoveredTimed(rec) ==
    {r \in DOMAIN rec.bundles[1].craft_recipe :
        /\ r \in DOMAIN rec.before.data.recipes
        /\ rec.before.data.recipes[r].crafting_time # None
        /\ TotalSpeed(rec.before, CoveringGroups(rec.before, r)) = Zero}

TimedWithoutMachineFails ==
    (last.op = "plan" /\ UncoveredTimed(last) # {}) =>
        /\ last.status = "panic"
        /\ last.steps = <<>>
        /\ world = last.before

\* the research recipe was fired in a World without a lab
ResearchFiredWithoutLab ==
    /\ last.op = "plan"
    /\ "research automation" \in UncoveredTimed(last)
    /\ last.error = "No machines that can craft"

\* ------------------------------------------------------------------------
\* C25: the bundles think() inserts
\* ------------------------------------------------------------------------
\* think() returned a Plan
Thought == run.pc = "thought" /\ run.plan.status = "ok"

\* the places of the Plan where the caller's bundles may stand: as many as
\* the caller added, holding the caller's bundles in the caller's order
CallerPlaces ==
    {P \in SUBSET (1..Len(run.plan.splits)) :
        /\ Cardinality(P) = Len(run.bundles)
        /\ \A k \in P :
              run.plan.splits[k] = run.bundles[Cardinality({j \in P : j <= k})]}

\* a build of `amount` of one machine that the World think() was called on
\* holds and that find_recipe_for resolves
BuildOfOwned(tasks, amounts) ==
    \E m \in DOMAIN run.before.machines, a \in amounts :
        /\ tasks = BuildTask(m, a)
        /\ \E found \in Resolutions(run.before, m) : found.kind = "some"

\* C25 as stated: every bundle that think() inserts is a single build task
\* of amount exactly 1 for a machine the World holds and find_recipe_for
\* resolves; only the position is free.
InsertedBuildsOfOne ==
    Thought =>
        \E P \in CallerPlaces :
            \A k \in (1..Len(run.plan.splits)) \ P :
                BuildOfOwned(run.plan.splits[k], {1})

\* C25 (as the code has it): every bundle that think() inserts is a single
\* build task of an amount from 1 to 4 for a machine the World holds and
\* find_recipe_for resolves; the amount and the position are free.
InsertedBuildsUpToFour ==
    Thought =>
        \E P \in CallerPlaces :
            \A k \in (1..Len(run.plan.splits)) \ P :
                BuildOfOwned(run.plan.splits[k], 1..4)

\* think() put a build of two drills before the caller's only bundle
TwoDrillsInserted ==
    /\ Thought
    /\ run.bundles = <<CraftTask("iron-ore", 2)>>
    /\ run.plan.splits = <<BuildTask("burner-mining-drill", 2), CraftTask("iron-ore", 2)>>

\* ------------------------------------------------------------------------
\* C26: when think() commits a candidate
\* ------------------------------------------------------------------------
\* the sum of the wall-clock times of the machines a step occupied
RECURSIVE SumWallClock(_, _)
SumWallClock(rec, ms) ==
    IF ms = {} THEN Zero
    ELSE LET m == CHOOSE x \in ms : TRUE
         IN  NumAdd(machine_times(rec.step, rec.before)[m], SumWallClock(rec, ms \ {m}))

\* total machine time of a run: the sum over its steps
RECURSIVE TotalMachineTime(_, _)
TotalMachineTime(steps, k) ==
    IF k = 0 THEN Zero
    ELSE NumAdd(SumWallClock(steps[k], Occupied(steps[k].step)),
                TotalMachineTime(steps, k - 1))

\* ceil(time / 60) of a time that is not negative
CeilMinutes(time) == (time[1] + 60 * time[2] - 1) \div (60 * time[2])

\* the run of a list of bundles on the World think() was called on
ThoughtRun(splits) == Simulate(run.before, splits)

\* (ceil(world.time / 60), total machine time) of a is strictly smaller, in
\* lexicographic order, than that of b
ObjectiveLower(a, b) ==
    \/ CeilMinutes(a.world.time) < CeilMinutes(b.world.time)
    \/ /\ CeilMinutes(a.world.time) = CeilMinutes(b.world.time)
       /\ NumLt(TotalMachineTime(a.steps, Len(a.steps)),
                TotalMachineTime(b.steps, Len(b.steps)))

\* the candidates of the iteration that found nothing to commit
LastCandidates ==
    {InsertAt(run.plan.splits, pos, BuildTask(m, a)) :
        m \in {x \in DOMAIN run.before.machines :
                 \E found \in Resolutions(run.before, x) : found.kind = "some"},
        a \in 1..4, pos \in 0..Len(run.plan.splits)}

BuildsOnly(tasks) ==
    /\ DOMAIN tasks.craft = {}
    /\ DOMAIN tasks.craft_recipe = {}
    /\ DOMAIN tasks.build # {}

PlanKeepsBundles ==
    [][(run.pc = "idle" /\ run'.pc = "thought" /\ run'.plan.status = "ok") =>
          /\ world' = world
          /\ run'.bundles \in ThinkChoices
          /\ Len(run'.plan.splits) >= Len(run'.bundles)
          /\ \E P \in CallerPlaces' :
                \A k \in (1..Len(run'.plan.splits)) \ P :
                    BuildsOnly(run'.plan.splits[k])]_vars

\* think() added a build to two different bundles of the caller
BuildInsertedAmongTwo ==
    /\ Thought
    /\ Len(run.bundles) = 2
    /\ run.bundles[1] # run.bundles[2]
    /\ Len(run.plan.splits) > 2
    /\ world = run.before

\* ------------------------------------------------------------------------
\* C27: the times of the step finalize returns are, machine by machine, the
\* sum of the times assigned during the expansion and during every closure
\* pass: a pass adds the pending time of each machine to its total exactly
\* once and starts the next pending times from nothing, the loop exits with
\* nothing pending, and the totals are what is returned
\* ------------------------------------------------------------------------
\* what the crafts of a pass assign, counted from an empty map
AssignedByPass(st) ==
    CraftDemands(world, [st.executed EXCEPT !.single_machine_time = ZeroTimes(world)],
                 Demands(world, st.executed.single_machine_time)).single_machine_time

TimesAccumulate ==
    [][/\ (run.pc = "idle" /\ run'.pc = "loop") =>
            /\ run'.st.total_times = ZeroTimes(world)
            /\ run'.st.executed.single_machine_time
                 = Expand(world, run'.tasks).single_machine_time
       /\ (run.pc = "loop" /\ run'.pc = "loop") =>
            /\ \A m \in DOMAIN world.data.machines :
                  run'.st.total_times[m]
                    = NumAdd(run.st.total_times[m], run.st.executed.single_machine_time[m])
            /\ run'.st.executed.single_machine_time = AssignedByPass(run.st)
       /\ (run.pc = "loop" /\ run'.pc = "returned") =>
            /\ run.st.executed.single_machine_time = ZeroTimes(world)
            /\ run'.st.executed.single_machine_time = run.st.total_times
            /\ run'.st.total_times = run.st.total_times]_vars

\* finalize returned times that hold, for one machine, a time of the
\* expansion and a time of a closure pass
TimesOfTwoPassesReturned ==
    /\ run.pc = "returned"
    /\ run.st.passes >= 2
    /\ \E m \in DOMAIN world.data.machines :
          /\ run.prev.total_times[m] # Zero
          /\ NumLt(run.prev.total_times[m], run.st.total_times[m])
          /\ run.st.executed.single_machine_time[m] = run.st.total_times[m]

\* ------------------------------------------------------------------------
\* C30: the expansion craft -> craft_recipe -> craft of the ingredients
\* terminates: no chain of resolved recipes leads from an item back to
\* itself as an ingredient
\* ------------------------------------------------------------------------
\* the ingredients of the recipes the items may be resolved to
IngredientsOf(w, items) ==
    UNION {Keys(w.data.recipes[found.name].ingredients) :
             found \in {f \in UNION {Resolutions(w, i) : i \in items \ BurnerEnergyItems} :
                          f.kind = "some"}}

\* the items the expansion of `items` asks craft for, n levels down
RECURSIVE Expanded(_, _, _)
Expanded(w, items, n) ==
    IF n = 0 THEN items
    ELSE Expanded(w, items \cup IngredientsOf(w, items), n - 1)

NoResolvedCycle ==
    (/\ run.pc = "resolved"
     /\ run.found.kind = "some"
     /\ run.found.name \in DOMAIN world.data.recipes) =>
        run.item \notin
            Expanded(world, Keys(world.data.recipes[run.found.name].ingredients),
                     Cardinality(ResolveItems))

====
